---- MODULE Spec2Model ----
(***************************************************************************)
(* A model of the CRM application's request handlers: the opportunity      *)
(* pipeline (create, edit, delete, Move, kanban listing and stats), the    *)
(* cross-entity search, and the owner-scoped update and delete handlers of *)
(* contacts, communications and documents.  The relational store, the file *)
(* storage and the clock are the state; every handler is one action.       *)
(***************************************************************************)
EXTENDS Integers, Sequences, FiniteSets, TLC

VARIABLES opps,      \* opportunity table: id -> row, or NoRow
          oppSeq,    \* per user, the number of opportunities created so far
          contacts,  \* contact table
          comms,     \* communication table
          docs,      \* document table
          files,     \* paths present in the upload storage
          now,       \* the server clock (milliseconds, abstracted)
          movers,    \* Move requests in flight, between findFirst and update
          resp,      \* the response to the last read request (listing, search)
          profiles,  \* user profile table: user id -> row, or NoRow
          docLog     \* per document id: whether it was issued, and its file path

vars == <<opps, oppSeq, contacts, comms, docs, files, now, movers, resp, profiles, docLog>>

(***************************************************************************)
(* Bounds of the model.                                                    *)
(***************************************************************************)
MaxTime == 2        \* the clock runs 0..MaxTime
MaxOrder == 1       \* stage orders sent by clients range over -1..MaxOrder

(***************************************************************************)
(* Values.                                                                 *)
(***************************************************************************)
Users == {"u1", "u2"}

\* Prisma ids are cuids, unique and never reused.  Each user's new rows take
\* the next unused name of that user's pool (the names themselves mean nothing).
OppPool == [u1 |-> <<"o1", "o2">>, u2 |-> <<"o3">>]
OppIds == {"o1", "o2", "o3"}
ContactIds == {"c1", "c2"}
CommIds == {"m1", "m2"}
DocIds == {"d1", "d2"}
GhostId == "ghost"          \* a well-formed cuid that names no row
BadId == "not a cuid"       \* fails z.string().cuid()

IsCuid(id) == id \in OppIds \cup ContactIds \cup CommIds \cup DocIds \cup {GhostId}

\* A nullable column or an optional value: <<>> is null, <<v>> is v.
None == <<>>
Some(v) == <<v>>
IsSome(x) == x # None
Val(x) == x[1]

\* A JSON body or a Prisma data object: a record holding the keys that are present.
Empty == [k \in {} |-> k]
Has(b, k) == k \in DOMAIN b
NoRow == [absent |-> TRUE]

\* The fixed status enumeration.
Statuses == {"lead", "qualified", "proposal", "negotiating", "closed-won", "closed-lost"}
BogusStatus == "archived"

DefaultStatus == "lead"
DefaultCurrency == "USD"
DefaultProbability == 10
DefaultStageOrder == 0
MinProbability == 0
MaxProbability == 100
WonProbability == 100
LostProbability == 0
DefaultLostReason == "Not specified"

\* An ISO date-time string of a request body; new Date(s) reads its instant.
DateStr(t) == [wellFormed |-> TRUE, instant |-> t]
NotADate == [wellFormed |-> FALSE, instant |-> 0]
IsDatetime(s) == s.wellFormed
NewDate(s) == s.instant

\* Text is a sequence of characters; contains/insensitive compares lower-cased.
Lower(c) == CASE c = "A" -> "a" [] c = "B" -> "b" [] OTHER -> c
LowerText(s) == [i \in 1..Len(s) |-> Lower(s[i])]
Contains(s, q) ==
  \E i \in 0..(Len(s) - Len(q)) :
    \A j \in 1..Len(q) : Lower(s[i + j]) = Lower(q[j])

(***************************************************************************)
(* The session: getServerSession yields the caller's user id, or nothing.  *)
(***************************************************************************)
Authenticated(u) == u \in Users
Anonymous == "anon"
Callers == Users \cup {Anonymous}

(***************************************************************************)
(* Store primitives (Prisma).                                              *)
(***************************************************************************)
\* Variant: findFirst({ where: { id } }), the owner left out of the filter.
FindFirstById(table, id, u) ==
  IF id \in DOMAIN table /\ table[id] # NoRow THEN table[id] ELSE NoRow

\* findFirst({ where: { id, userId } })
FindFirstOwned(table, id, u) ==
  IF id \in DOMAIN table /\ table[id] # NoRow /\ table[id].userId = u
  THEN table[id] ELSE NoRow

\* update({ data }): keys absent from data (undefined) keep the stored value.
ApplyData(row, data) ==
  [k \in DOMAIN row |-> IF k \in DOMAIN data THEN data[k] ELSE row[k]]

\* the ids of the rows of a table
Stored(table) == {i \in DOMAIN table : table[i] # NoRow}

\* a handler's outcome: the status code and the table it leaves
Outcome(code, table) == [code |-> code, table |-> table]

(***************************************************************************)
(* POST /api/opportunities/reorder (Move).                                 *)
(***************************************************************************)
\* reorderSchema.parse(body) succeeds
ReorderValid(b) ==
  /\ Has(b, "opportunityId") /\ IsCuid(b.opportunityId)
  /\ Has(b, "newStatus") /\ b.newStatus \in Statuses
  /\ Has(b, "newOrder")
  /\ Has(b, "wonDate") => IsDatetime(b.wonDate)

\* Variant: updateData without the forced probability of a closed stage.
MoveUpdateDataUnforced(b, t) ==
  [status |-> b.newStatus, stageOrder |-> b.newOrder, updatedAt |-> t]
  @@ (IF b.newStatus = "closed-won"
      THEN [wonDate |-> IF Has(b, "wonDate") THEN Some(NewDate(b.wonDate)) ELSE Some(t)]
      ELSE IF b.newStatus = "closed-lost"
      THEN [lostReason |-> IF Has(b, "lostReason") /\ b.lostReason # ""
                           THEN Some(b.lostReason) ELSE Some(DefaultLostReason)]
      ELSE Empty)

\* the updateData object built from the parsed body, at clock reading t
MoveUpdateData(b, t) ==
  [status |-> b.newStatus, stageOrder |-> b.newOrder, updatedAt |-> t]
  @@ (IF b.newStatus = "closed-won"
      THEN [wonDate |-> IF Has(b, "wonDate") THEN Some(NewDate(b.wonDate)) ELSE Some(t),
            probability |-> WonProbability]
      ELSE IF b.newStatus = "closed-lost"
      THEN [lostReason |-> IF Has(b, "lostReason") /\ b.lostReason # ""
                           THEN Some(b.lostReason) ELSE Some(DefaultLostReason),
            probability |-> LostProbability]
      ELSE Empty)

\* the whole handler on table store for caller u at clock reading t
\* Variant: the body parsed before the session is looked at.
MoveOutcomeParseFirst(store, u, b, t) ==
  IF ~ReorderValid(b) THEN Outcome(400, store)
  ELSE IF ~Authenticated(u) THEN Outcome(401, store)
  ELSE IF FindFirstOwned(store, b.opportunityId, u) = NoRow THEN Outcome(404, store)
  ELSE Outcome(200, [store EXCEPT ![b.opportunityId] =
                       ApplyData(@, MoveUpdateData(b, t))])

MoveOutcome(store, u, b, t) ==
  IF ~Authenticated(u) THEN Outcome(401, store)
  ELSE IF ~ReorderValid(b) THEN Outcome(400, store)
  ELSE IF FindFirstOwned(store, b.opportunityId, u) = NoRow THEN Outcome(404, store)
  ELSE Outcome(200, [store EXCEPT ![b.opportunityId] =
                       ApplyData(@, MoveUpdateData(b, t))])

MoveOpportunity(u, b) ==
  /\ opps' = MoveOutcome(opps, u, b, now).table
  /\ UNCHANGED <<oppSeq, contacts, comms, docs, files, now, movers, resp, profiles, docLog>>

(***************************************************************************)
(* The same handler as two steps, for requests that run concurrently: the  *)
(* ownership read (findFirst), and later the single update.                *)
(***************************************************************************)
Procs == {"p1", "p2"}
IdleMover == [pc |-> "idle"]

\* the writes applied so far
Commits == Cardinality({p \in DOMAIN movers : movers[p].pc = "done" /\ movers[p].nth > 0})

\* up to the ownership check: the request ends here with 401, 400 or 404, or
\* goes on holding the row it read
MoveBegin(p, u, b) ==
  /\ movers[p].pc = "idle"
  /\ LET code == MoveOutcome(opps, u, b, now).code IN
       movers' = [movers EXCEPT ![p] =
         IF code # 200
         THEN [pc |-> "done", caller |-> u, body |-> b, code |-> code,
               began |-> Commits, nth |-> 0]
         ELSE [pc |-> "found", caller |-> u, body |-> b,
               row |-> opps[b.opportunityId], began |-> Commits]]
  /\ UNCHANGED <<opps, oppSeq, contacts, comms, docs, files, now, resp, profiles, docLog>>

\* Variant: the update written as two, status always and stageOrder only
\* when the row is still the one the request read.
CommitStaleOrder(store, m, t) ==
  IF m.body.opportunityId \in Stored(store)
  THEN Outcome(200, [store EXCEPT ![m.body.opportunityId] =
         IF @ = m.row
         THEN ApplyData(@, MoveUpdateData(m.body, t))
         ELSE [ApplyData(@, MoveUpdateData(m.body, t)) EXCEPT !.stageOrder = m.row.stageOrder]])
  ELSE Outcome(500, store)

\* update({ where: { id }, data: updateData }) on the table as it is now: one
\* write of all the keys of updateData; a row deleted meanwhile makes it throw
CommitOutcome(store, m, t) ==
  IF m.body.opportunityId \in Stored(store)
  THEN Outcome(200, [store EXCEPT ![m.body.opportunityId] =
                       ApplyData(@, MoveUpdateData(m.body, t))])
  ELSE Outcome(500, store)

MoveCommit(p) ==
  /\ movers[p].pc = "found"
  /\ LET out == CommitOutcome(opps, movers[p], now) IN
       /\ opps' = out.table
       /\ movers' = [movers EXCEPT ![p] =
            [pc |-> "done", caller |-> @.caller, body |-> @.body, code |-> out.code,
             began |-> @.began, nth |-> Commits + 1]]
  /\ UNCHANGED <<oppSeq, contacts, comms, docs, files, now, resp, profiles, docLog>>

(***************************************************************************)
(* opportunitySchema / updateOpportunitySchema (lib/validations).          *)
(***************************************************************************)
\* Variant: status a plain string, not the enum.
OpportunityValidAnyStatus(b, partial) ==
  /\ Has(b, "contactId") => IsCuid(b.contactId)
  /\ IF Has(b, "title") THEN Len(b.title) >= 1 ELSE partial
  /\ Has(b, "value") => b.value > 0
  /\ Has(b, "probability") =>
       (b.probability >= MinProbability /\ b.probability <= MaxProbability)
  /\ ~Has(b, "closeDate")
  /\ ~Has(b, "wonDate")

\* Every key of a body that passes: z.date() accepts no JSON value, so a body
\* carrying closeDate or wonDate fails; partial makes title optional too.
OpportunityValid(b, partial) ==
  /\ Has(b, "contactId") => IsCuid(b.contactId)
  /\ IF Has(b, "title") THEN Len(b.title) >= 1 ELSE partial
  /\ Has(b, "value") => b.value > 0
  /\ Has(b, "status") => b.status \in Statuses
  /\ Has(b, "probability") =>
       (b.probability >= MinProbability /\ b.probability <= MaxProbability)
  /\ ~Has(b, "closeDate")
  /\ ~Has(b, "wonDate")

\* opportunitySchema.parse: the defaults fill the keys that are missing
OpportunityParsed(b) ==
  b @@ [currency |-> DefaultCurrency, status |-> DefaultStatus,
        probability |-> DefaultProbability, stageOrder |-> DefaultStageOrder]

\* an optional key of a parsed object as a nullable column
Opt(b, k) == IF Has(b, k) THEN Some(b[k]) ELSE None

\* the foreign key of an optional relation: null, or the id of a stored row
ForeignKeyOk(table, b, k) ==
  Has(b, k) => (b[k] \in DOMAIN table /\ table[b[k]] # NoRow)

(***************************************************************************)
(* POST /api/opportunities (create).                                       *)
(***************************************************************************)
NewOpportunityRow(u, v, t) ==
  [userId |-> u, contactId |-> Opt(v, "contactId"), title |-> v.title,
   description |-> Opt(v, "description"), value |-> Opt(v, "value"),
   currency |-> v.currency, status |-> v.status, probability |-> v.probability,
   closeDate |-> None, stageOrder |-> v.stageOrder, wonDate |-> None,
   lostReason |-> Opt(v, "lostReason"), updatedAt |-> t]

\* the handler; id is the cuid the store gives the new row
CreateOutcome(store, cts, u, b, id, t) ==
  IF ~Authenticated(u) THEN Outcome(401, store)
  ELSE IF ~OpportunityValid(b, FALSE) THEN Outcome(400, store)
  ELSE IF ~ForeignKeyOk(cts, b, "contactId") THEN Outcome(500, store)
  ELSE Outcome(201, [store EXCEPT ![id] = NewOpportunityRow(u, OpportunityParsed(b), t)])

FreshOppId(u) == OppPool[u][oppSeq[u] + 1]

CreateOpportunity(u, b) ==
  /\ Authenticated(u) => oppSeq[u] < Len(OppPool[u])
  /\ LET out == CreateOutcome(opps, contacts, u, b, FreshOppId(u), now) IN
       /\ opps' = out.table
       /\ oppSeq' = IF out.code = 201 THEN [oppSeq EXCEPT ![u] = @ + 1] ELSE oppSeq
  /\ UNCHANGED <<contacts, comms, docs, files, now, movers, resp, profiles, docLog>>

(***************************************************************************)
(* PUT and DELETE /api/opportunities/[id].                                 *)
(***************************************************************************)
EditableKeys ==
  {"contactId", "title", "description", "value", "currency", "status", "probability"}
NullableKeys == {"contactId", "description", "value"}

\* Variant: the defaults of the schema filled in for the keys that are missing.
EditUpdateDataDefaulted(b) ==
  [k \in (DOMAIN OpportunityParsed(b) \cap EditableKeys) \cup {"closeDate"} |->
     IF k = "closeDate" THEN None
     ELSE IF k \in NullableKeys THEN Some(b[k]) ELSE OpportunityParsed(b)[k]]

\* the data object of the update: the validated keys, and closeDate, which is
\* written as null whenever the body carries no date
EditUpdateData(b) ==
  [k \in (DOMAIN b \cap EditableKeys) \cup {"closeDate"} |->
     IF k = "closeDate" THEN None
     ELSE IF k \in NullableKeys THEN Some(b[k]) ELSE b[k]]

\* updatedAt is maintained by the store on update, or left alone: both outcomes
Touch(row, touched, t) == IF touched THEN [row EXCEPT !.updatedAt = t] ELSE row

EditOutcome(store, cts, u, id, b, touched, t) ==
  IF ~Authenticated(u) THEN Outcome(401, store)
  ELSE IF ~(IsCuid(id) /\ OpportunityValid(b, TRUE)) THEN Outcome(400, store)
  ELSE IF FindFirstOwned(store, id, u) = NoRow THEN Outcome(404, store)
  ELSE IF ~ForeignKeyOk(cts, b, "contactId") THEN Outcome(500, store)
  ELSE Outcome(200, [store EXCEPT ![id] =
                       Touch(ApplyData(@, EditUpdateData(b)), touched, t)])

UpdateOpportunity(u, id, b) ==
  /\ \E touched \in BOOLEAN :
       opps' = EditOutcome(opps, contacts, u, id, b, touched, now).table
  /\ UNCHANGED <<oppSeq, contacts, comms, docs, files, now, movers, resp, profiles, docLog>>

\* Variant: the delete without the ownership read.
DeleteUnowned(store, u, id) ==
  IF ~Authenticated(u) THEN Outcome(401, store)
  ELSE IF id \notin Stored(store) THEN Outcome(404, store)
  ELSE Outcome(200, [store EXCEPT ![id] = NoRow])

\* DELETE of an opportunity, a contact or a communication: the ownership
\* read, then the delete
DeleteOutcome(store, u, id) ==
  IF ~Authenticated(u) THEN Outcome(401, store)
  ELSE IF FindFirstOwned(store, id, u) = NoRow THEN Outcome(404, store)
  ELSE Outcome(200, [store EXCEPT ![id] = NoRow])

DeleteOpportunity(u, id) ==
  /\ opps' = DeleteOutcome(opps, u, id).table
  /\ UNCHANGED <<oppSeq, contacts, comms, docs, files, now, movers, resp, profiles, docLog>>

\* the clock advances between requests
Tick ==
  /\ now < MaxTime
  /\ now' = now + 1
  /\ UNCHANGED <<opps, oppSeq, contacts, comms, docs, files, movers, resp, profiles, docLog>>

(***************************************************************************)
(* GET /api/opportunities: the listing, its kanban projection, its stats.  *)
(***************************************************************************)
\* where: the caller's rows that pass the query, status and contact filters; an
\* empty filter string is no filter
Matches(row, u, query, status, contactId) ==
  /\ row.userId = u
  /\ query # <<>> =>
       \/ Contains(row.title, query)
       \/ (IsSome(row.description) /\ Contains(Val(row.description), query))
  /\ status # "" => row.status = status
  /\ contactId # "" => row.contactId = Some(contactId)

Matching(store, u, query, status, contactId) ==
  {i \in Stored(store) : Matches(store[i], u, query, status, contactId)}

\* orderBy status asc: the statuses compare as strings
StatusRank(st) ==
  CASE st = "closed-lost" -> 1 [] st = "closed-won" -> 2 [] st = "lead" -> 3
    [] st = "negotiating" -> 4 [] st = "proposal" -> 5 [] st = "qualified" -> 6

\* Variant: orderBy [status asc, stageOrder asc, updatedAt asc].
BeforeOldestFirst(a, b) ==
  \/ StatusRank(a.status) < StatusRank(b.status)
  \/ /\ a.status = b.status
     /\ \/ a.stageOrder < b.stageOrder
        \/ (a.stageOrder = b.stageOrder /\ a.updatedAt < b.updatedAt)

\* orderBy [status asc, stageOrder asc, updatedAt desc]: row a sorts before row b
Before(a, b) ==
  \/ StatusRank(a.status) < StatusRank(b.status)
  \/ /\ a.status = b.status
     /\ \/ a.stageOrder < b.stageOrder
        \/ (a.stageOrder = b.stageOrder /\ a.updatedAt > b.updatedAt)

\* findMany: every order of the matching ids that respects orderBy (rows that
\* tie on all three keys come in whichever order the store yields)
Orderings(store, ids) ==
  {seq \in [1..Cardinality(ids) -> ids] :
     /\ \A i, j \in 1..Cardinality(ids) : i # j => seq[i] # seq[j]
     /\ \A i, j \in 1..Cardinality(ids) : i < j => ~Before(store[seq[j]], store[seq[i]])}

\* opportunities.filter(opp => opp.status === st)
Bucket(store, seq, st) == SelectSeq(seq, LAMBDA i : store[i].status = st)

\* Variant: the 'closed-lost' bucket filtered on 'closed-won'.
KanbanDataWonTwice(store, seq) ==
  [lead |-> Bucket(store, seq, "lead"),
   qualified |-> Bucket(store, seq, "qualified"),
   proposal |-> Bucket(store, seq, "proposal"),
   negotiating |-> Bucket(store, seq, "negotiating")]
  @@ ("closed-won" :> Bucket(store, seq, "closed-won"))
  @@ ("closed-lost" :> Bucket(store, seq, "closed-won"))

\* kanbanData: the six buckets, each in the order of the fetched list
KanbanData(store, seq) ==
  [lead |-> Bucket(store, seq, "lead"),
   qualified |-> Bucket(store, seq, "qualified"),
   proposal |-> Bucket(store, seq, "proposal"),
   negotiating |-> Bucket(store, seq, "negotiating")]
  @@ ("closed-won" :> Bucket(store, seq, "closed-won"))
  @@ ("closed-lost" :> Bucket(store, seq, "closed-lost"))

\* the key of kanbanData that holds the opportunities of a status
KanbanKey(st) == st

\* Variant: only 'closed-won' counted as closed.
StartsWithWon(st) == st = "closed-won"

\* opp.status.startsWith('closed-')
StartsWithClosed(st) == st \in {"closed-won", "closed-lost"}

\* reduce((sum, opp) => sum + (opp.value || 0), 0)
RECURSIVE SumValues(_, _)
SumValues(store, seq) ==
  IF seq = <<>> THEN 0
  ELSE (IF IsSome(store[Head(seq)].value) THEN Val(store[Head(seq)].value) ELSE 0)
       + SumValues(store, Tail(seq))

\* Variant: Math.floor for Math.round.
FlooredPercent(num, den) == (num * 10000) \div den

\* Math.round(x * 100) / 100 of the ratio num/den * 100, in hundredths
RoundedPercent(num, den) == (2 * num * 10000 + den) \div (2 * den)

\* Variant: avgValue over the opportunities that carry a value.
StatsValuedAverage(store, seq) ==
  LET total == Len(seq)
      won == Len(Bucket(store, seq, "closed-won"))
      lost == Len(Bucket(store, seq, "closed-lost"))
      closed == won + lost
      open == SelectSeq(seq, LAMBDA i : ~StartsWithClosed(store[i].status))
      valued == Len(SelectSeq(seq, LAMBDA i : IsSome(store[i].value)))
  IN [total |-> total,
      totalValue |-> SumValues(store, seq),
      pipelineValue |-> SumValues(store, open),
      wonValue |-> SumValues(store, Bucket(store, seq, "closed-won")),
      winRate |-> IF closed > 0 THEN RoundedPercent(won, closed) ELSE 0,
      avgValue |-> IF valued > 0 THEN <<SumValues(store, seq), valued>> ELSE <<0, 1>>,
      conversionStats |-> [won |-> won, lost |-> lost, active |-> total - closed]]

\* the stats object, computed from the rows the listing returned; winRate is in
\* hundredths of a percent point and avgValue is the pair numerator, denominator
Stats(store, seq) ==
  LET total == Len(seq)
      won == Len(Bucket(store, seq, "closed-won"))
      lost == Len(Bucket(store, seq, "closed-lost"))
      closed == won + lost
      open == SelectSeq(seq, LAMBDA i : ~StartsWithClosed(store[i].status))
  IN [total |-> total,
      totalValue |-> SumValues(store, seq),
      pipelineValue |-> SumValues(store, open),
      wonValue |-> SumValues(store, Bucket(store, seq, "closed-won")),
      winRate |-> IF closed > 0 THEN RoundedPercent(won, closed) ELSE 0,
      avgValue |-> IF total > 0 THEN <<SumValues(store, seq), total>> ELSE <<0, 1>>,
      conversionStats |-> [won |-> won, lost |-> lost, active |-> total - closed]]

ListBody(store, seq) ==
  [opportunities |-> seq, kanban |-> KanbanData(store, seq), stats |-> Stats(store, seq)]

\* every response the handler may give to the request
ListResponses(store, u, query, status, contactId) ==
  IF ~Authenticated(u) THEN {[code |-> 401]}
  ELSE {[code |-> 200] @@ ListBody(store, seq) :
          seq \in Orderings(store, Matching(store, u, query, status, contactId))}

ListOpportunities(u, query, status, contactId) ==
  /\ \E r \in ListResponses(opps, u, query, status, contactId) :
       resp' = [op |-> "list", caller |-> u, query |-> query, status |-> status,
                contactId |-> contactId, body |-> r]
  /\ UNCHANGED <<opps, oppSeq, contacts, comms, docs, files, now, movers, profiles, docLog>>

(***************************************************************************)
(* PUT and DELETE /api/contacts/[id].                                      *)
(***************************************************************************)
At == "@"
\* z.string().email(), as far as the model's texts go: an address has an @
IsEmail(s) == \E k \in 1..Len(s) : s[k] = At

\* z.string().url(), as far as the model's texts go: a URL has a scheme colon
IsUrl(s) == \E k \in 1..Len(s) : s[k] = ":"

\* contactSchema (partial for an update): name is not empty; email is an
\* address or the empty string, website a URL or the empty string
ContactValid(b, partial) ==
  /\ IF Has(b, "name") THEN Len(b.name) >= 1 ELSE partial
  /\ Has(b, "email") => (b.email = <<>> \/ IsEmail(b.email))
  /\ Has(b, "website") => (b.website = <<>> \/ IsUrl(b.website))

ContactKeys == {"name", "email", "phone", "company", "title", "address", "website"}
ContactNullable == ContactKeys \ {"name"}

ContactUpdateData(b) ==
  [k \in DOMAIN b \cap ContactKeys |-> IF k \in ContactNullable THEN Some(b[k]) ELSE b[k]]

ContactEditOutcome(store, u, id, b, touched, t) ==
  IF ~Authenticated(u) THEN Outcome(401, store)
  ELSE IF ~(IsCuid(id) /\ ContactValid(b, TRUE)) THEN Outcome(400, store)
  ELSE IF FindFirstOwned(store, id, u) = NoRow THEN Outcome(404, store)
  ELSE Outcome(200, [store EXCEPT ![id] =
                       Touch(ApplyData(@, ContactUpdateData(b)), touched, t)])

UpdateContact(u, id, b) ==
  /\ \E touched \in BOOLEAN :
       contacts' = ContactEditOutcome(contacts, u, id, b, touched, now).table
  /\ UNCHANGED <<opps, oppSeq, comms, docs, files, now, movers, resp, profiles, docLog>>

DeleteContact(u, id) ==
  /\ contacts' = DeleteOutcome(contacts, u, id).table
  /\ UNCHANGED <<opps, oppSeq, comms, docs, files, now, movers, resp, profiles, docLog>>

\* prisma.communication.create: the parsed keys, the caller, the two dates
NewCommunicationRow(u, v, t) ==
  [userId |-> u, createdAt |-> t, type |-> v.type, direction |-> v.direction,
   subject |-> Opt(v, "subject"), content |-> Opt(v, "content"),
   contactId |-> Opt(v, "contactId"), opportunityId |-> Opt(v, "opportunityId"),
   scheduledDate |-> IF Has(v, "scheduledDate") /\ v.scheduledDate # <<>>
                     THEN Some(NewDate(v.scheduledDate)) ELSE None,
   completedDate |-> IF Has(v, "completedDate") /\ v.completedDate # <<>>
                     THEN Some(NewDate(v.completedDate)) ELSE None]

(***************************************************************************)
(* PUT and DELETE /api/communications/[id].                                *)
(***************************************************************************)
CommTypes == {"email", "phone", "meeting", "task"}
Directions == {"inbound", "outbound"}
\* updateCommunicationSchema: every key optional, the two enums checked.  The
\* nullable keys (subject and content aside) carry null or a string in the
\* body: <<>> or <<string>> here.
CommUpdateValid(b) ==
  /\ Has(b, "type") => b.type \in CommTypes
  /\ Has(b, "direction") => b.direction \in Directions

CommDateKeys == {"scheduledDate", "completedDate"}
CommRefKeys == {"contactId", "opportunityId"}
CommTextKeys == {"subject", "content"}

\* updateData: the parsed keys, a date string made a Date and null kept null
CommUpdateData(b) ==
  [k \in DOMAIN b |->
     IF k \in CommDateKeys
     THEN (IF IsSome(b[k]) THEN Some(NewDate(Val(b[k]))) ELSE None)
     ELSE IF k \in CommTextKeys THEN Some(b[k])
     ELSE b[k]]

\* a reference of the body names a row of the table, or is null
RefOk(table, b, k) ==
  (Has(b, k) /\ IsSome(b[k])) => Val(b[k]) \in Stored(table)

\* the update fails in the store: a date string that is no date, or a
\* reference to a row that does not exist
CommUpdateFails(b, cts, ops) ==
  \/ \E k \in DOMAIN b \cap CommDateKeys : IsSome(b[k]) /\ ~IsDatetime(Val(b[k]))
  \/ ~RefOk(cts, b, "contactId")
  \/ ~RefOk(ops, b, "opportunityId")

CommEditOutcome(store, cts, ops, u, id, b) ==
  IF ~Authenticated(u) THEN Outcome(401, store)
  ELSE IF ~CommUpdateValid(b) THEN Outcome(400, store)
  ELSE IF FindFirstOwned(store, id, u) = NoRow THEN Outcome(404, store)
  ELSE IF CommUpdateFails(b, cts, ops) THEN Outcome(500, store)
  ELSE Outcome(200, [store EXCEPT ![id] = ApplyData(@, CommUpdateData(b))])

UpdateCommunication(u, id, b) ==
  /\ comms' = CommEditOutcome(comms, contacts, opps, u, id, b).table
  /\ UNCHANGED <<opps, oppSeq, contacts, docs, files, now, movers, resp, profiles, docLog>>

DeleteCommunication(u, id) ==
  /\ comms' = DeleteOutcome(comms, u, id).table
  /\ UNCHANGED <<opps, oppSeq, contacts, docs, files, now, movers, resp, profiles, docLog>>

(***************************************************************************)
(* DELETE /api/documents/[id].                                             *)
(***************************************************************************)
\* uploads/<user id>/<filename>
UploadPath(u, filename) == [dir |-> u, name |-> filename]

\* the generated file name: a time stamp and a random part, one per upload
StoredName(id) == IF id = "d1" THEN <<"f", "1">> ELSE <<"f", "2">>

\* a form field that is missing or empty is stored as null
FormRef(form, k) == IF Has(form, k) /\ form[k] # "" THEN Some(form[k]) ELSE None

\* prisma.document.create on an upload
NewDocumentRow(u, form, filename, t) ==
  [userId |-> u, createdAt |-> t,
   contactId |-> FormRef(form, "contactId"), opportunityId |-> FormRef(form, "opportunityId"),
   filename |-> filename, originalName |-> form.file.name,
   mimeType |-> IF form.file.type = "" THEN "application/octet-stream" ELSE form.file.type,
   size |-> form.file.size, uploadPath |-> UploadPath(u, filename)]

\* What can go wrong under a handler: nothing, the file-system call throws,
\* or the store call throws.
Faults == {"none", "file", "store"}

\* The ids and the stored file names are unique for good: docLog keeps, for
\* every document id, whether it is still free, stored or deleted, or was
\* spent on an upload that failed, and the path of its file.
FreeSlot == [phase |-> "free"]
DocLogOf(table) ==
  [i \in DOMAIN table |->
     IF table[i] = NoRow THEN FreeSlot
     ELSE [phase |-> "stored", path |-> table[i].uploadPath]]

\* Variant: the record deleted and the file left in the storage.
DocDeleteKeepsFile(store, disk, u, id, fail) ==
  IF ~Authenticated(u) THEN [code |-> 401, table |-> store, files |-> disk]
  ELSE IF FindFirstOwned(store, id, u) = NoRow
  THEN [code |-> 404, table |-> store, files |-> disk]
  ELSE IF fail = "store" THEN [code |-> 500, table |-> store, files |-> disk]
  ELSE [code |-> 200, table |-> [store EXCEPT ![id] = NoRow], files |-> disk]

\* the handler's outcome on the table and on the storage: existsSync and
\* unlink, then prisma.document.delete; a throw of either answers 500
DocDeleteOutcome(store, disk, u, id, fail) ==
  IF ~Authenticated(u) THEN [code |-> 401, table |-> store, files |-> disk]
  ELSE IF FindFirstOwned(store, id, u) = NoRow
  THEN [code |-> 404, table |-> store, files |-> disk]
  ELSE IF store[id].uploadPath \in disk /\ fail = "file"
  THEN [code |-> 500, table |-> store, files |-> disk]
  ELSE IF fail = "store"
  THEN [code |-> 500, table |-> store, files |-> disk \ {store[id].uploadPath}]
  ELSE [code |-> 200, table |-> [store EXCEPT ![id] = NoRow],
        files |-> disk \ {store[id].uploadPath}]

DeleteDocument(u, id, fail) ==
  LET out == DocDeleteOutcome(docs, files, u, id, fail) IN
    /\ docs' = out.table
    /\ files' = out.files
    /\ docLog' = IF out.code = 200 THEN [docLog EXCEPT ![id].phase = "deleted"] ELSE docLog
    /\ UNCHANGED <<opps, oppSeq, contacts, comms, now, movers, resp, profiles>>

(***************************************************************************)
(* POST /api/documents (upload), GET /api/documents (listing) and          *)
(* GET /api/documents/[id]/download.                                       *)
(***************************************************************************)
MaxFileSize == 10 * 1024 * 1024
DocPool == <<"d1", "d2">>

\* the id, and with it the file name, the next upload gets
FreeSlots == {k \in 1..Len(DocPool) : docLog[DocPool[k]].phase = "free"}
NextDocId == DocPool[CHOOSE k \in FreeSlots : \A j \in FreeSlots : k <= j]

\* Variant: the record created first, the file written after it.
UploadRecordFirst(store, disk, u, form, id, t, fail) ==
  IF ~Authenticated(u) THEN [code |-> 401, table |-> store, files |-> disk]
  ELSE IF ~Has(form, "file") THEN [code |-> 400, table |-> store, files |-> disk]
  ELSE IF form.file.size > MaxFileSize THEN [code |-> 400, table |-> store, files |-> disk]
  ELSE IF fail = "store"
  THEN [code |-> 500, table |-> store, files |-> disk]
  ELSE IF fail = "file"
  THEN [code |-> 500, table |-> [store EXCEPT ![id] = NewDocumentRow(u, form, StoredName(id), t)],
        files |-> disk]
  ELSE [code |-> 200, table |-> [store EXCEPT ![id] = NewDocumentRow(u, form, StoredName(id), t)],
        files |-> disk \cup {UploadPath(u, StoredName(id))}]

\* the upload handler: the checks of the form, mkdir and writeFile, then
\* prisma.document.create; a throw of either answers 500 and nothing is undone
UploadOutcome(store, disk, u, form, id, t, fail) ==
  IF ~Authenticated(u) THEN [code |-> 401, table |-> store, files |-> disk]
  ELSE IF ~Has(form, "file") THEN [code |-> 400, table |-> store, files |-> disk]
  ELSE IF form.file.size > MaxFileSize THEN [code |-> 400, table |-> store, files |-> disk]
  ELSE IF fail = "file" THEN [code |-> 500, table |-> store, files |-> disk]
  ELSE IF fail = "store"
  THEN [code |-> 500, table |-> store, files |-> disk \cup {UploadPath(u, StoredName(id))}]
  ELSE [code |-> 200, table |-> [store EXCEPT ![id] = NewDocumentRow(u, form, StoredName(id), t)],
        files |-> disk \cup {UploadPath(u, StoredName(id))}]

UploadDocument(u, form, fail) ==
  /\ FreeSlots # {}
  /\ LET id == NextDocId
         out == UploadOutcome(docs, files, u, form, id, now, fail)
     IN /\ docs' = out.table
        /\ files' = out.files
        /\ docLog' = IF out.code = 200
                     THEN [docLog EXCEPT ![id] = [phase |-> "stored", path |-> UploadPath(u, StoredName(id))]]
                     ELSE IF out.files # files
                     THEN [docLog EXCEPT ![id] = [phase |-> "failed", path |-> UploadPath(u, StoredName(id))]]
                     ELSE docLog
  /\ UNCHANGED <<opps, oppSeq, contacts, comms, now, movers, resp, profiles>>

\* the download handler: the ownership read, existsSync, readFile
DownloadResponse(store, disk, u, id, fail) ==
  IF ~Authenticated(u) THEN [code |-> 401]
  ELSE IF FindFirstOwned(store, id, u) = NoRow THEN [code |-> 404]
  ELSE IF store[id].uploadPath \notin disk THEN [code |-> 404]
  ELSE IF fail = "file" THEN [code |-> 500]
  ELSE [code |-> 200, content |-> store[id].uploadPath, mimeType |-> store[id].mimeType,
        size |-> store[id].size, originalName |-> store[id].originalName]

DownloadDocument(u, id, fail) ==
  /\ resp' = [op |-> "download", caller |-> u, id |-> id,
              body |-> DownloadResponse(docs, files, u, id, fail)]
  /\ UNCHANGED <<opps, oppSeq, contacts, comms, docs, files, now, movers, profiles, docLog>>

\* where of the listing: the caller's documents, narrowed by the parameters
\* that are given (an empty one counts as missing)
DocListed(store, u, query, contactId, opportunityId) ==
  {i \in Stored(store) :
     /\ store[i].userId = u
     /\ contactId # "" => store[i].contactId = Some(contactId)
     /\ opportunityId # "" => store[i].opportunityId = Some(opportunityId)
     /\ query # <<>> =>
          (Contains(store[i].filename, query) \/ Contains(store[i].originalName, query))}

\* orderBy createdAt desc, ties in any order
NewestFirst(store, ids) ==
  {seq \in [1..Cardinality(ids) -> ids] :
     /\ \A i, j \in 1..Cardinality(ids) : i # j => seq[i] # seq[j]
     /\ \A i, j \in 1..Cardinality(ids) :
          i < j => store[seq[i]].createdAt >= store[seq[j]].createdAt}

RECURSIVE SumSizes(_, _)
SumSizes(store, ids) ==
  IF ids = {} THEN 0
  ELSE LET i == CHOOSE j \in ids : TRUE IN store[i].size + SumSizes(store, ids \ {i})

DefaultPage == 1
DefaultPageSize == 50
Week == 7

\* the listing handler with the default page and limit; the clock counts days
DocListResponses(store, u, query, contactId, opportunityId, t) ==
  IF ~Authenticated(u) THEN {[code |-> 401]}
  ELSE LET hits == DocListed(store, u, query, contactId, opportunityId)
           mine == DocListed(store, u, <<>>, "", "")
       IN {[code |-> 200,
            documents |-> SubSeq(seq, 1, IF Len(seq) < DefaultPageSize THEN Len(seq)
                                         ELSE DefaultPageSize),
            pagination |-> [page |-> DefaultPage, limit |-> DefaultPageSize,
                            total |-> Cardinality(hits),
                            totalPages |-> (Cardinality(hits) + DefaultPageSize - 1)
                                             \div DefaultPageSize],
            stats |-> [total |-> Cardinality(mine),
                       recent |-> Cardinality({i \in mine : store[i].createdAt >= t - Week}),
                       totalSize |-> SumSizes(store, mine)]] :
             seq \in NewestFirst(store, hits)}

ListDocuments(u, query, contactId, opportunityId) ==
  /\ \E r \in DocListResponses(docs, u, query, contactId, opportunityId, now) :
       resp' = [op |-> "documents", caller |-> u, query |-> query, body |-> r]
  /\ UNCHANGED <<opps, oppSeq, contacts, comms, docs, files, now, movers, profiles, docLog>>

(***************************************************************************)
(* GET /api/search.                                                        *)
(***************************************************************************)
DefaultLimit == 20
MaxLimit == 50
ShareDivisor == 4
MaxShare == 10

\* a column that may be null contains the query
OptContains(x, q) == IsSome(x) /\ Contains(Val(x), q)

ContactMatches(row, q) ==
  \/ Contains(row.name, q) \/ OptContains(row.email, q) \/ OptContains(row.company, q)
  \/ OptContains(row.title, q) \/ OptContains(row.phone, q)
OpportunityMatches(row, q) == Contains(row.title, q) \/ OptContains(row.description, q)
CommunicationMatches(row, q) == OptContains(row.subject, q) \/ OptContains(row.content, q)
DocumentMatches(row, q) == Contains(row.originalName, q) \/ Contains(row.filename, q)

Collections == {"contacts", "opportunities", "communications", "documents"}

RowMatches(coll, row, q) ==
  CASE coll = "contacts" -> ContactMatches(row, q)
    [] coll = "opportunities" -> OpportunityMatches(row, q)
    [] coll = "communications" -> CommunicationMatches(row, q)
    [] coll = "documents" -> DocumentMatches(row, q)

\* Variant: where: { OR: [...] }, the caller left out of the filter.
SearchHitsAnyOwner(coll, table, u, q) ==
  {i \in Stored(table) : RowMatches(coll, table[i], q)}

\* where: { userId: session.user.id, OR: [...] }
SearchHits(coll, table, u, q) ==
  {i \in Stored(table) : table[i].userId = u /\ RowMatches(coll, table[i], q)}

\* orderBy updatedAt desc (contacts, opportunities) or createdAt desc
Recency(coll, row) ==
  IF coll \in {"contacts", "opportunities"} THEN row.updatedAt ELSE row.createdAt

\* the orders of ids the store may return: newest first, ties in any order
RecentFirst(coll, table, ids) ==
  {seq \in [1..Cardinality(ids) -> ids] :
     /\ \A i, j \in 1..Cardinality(ids) : i # j => seq[i] # seq[j]
     /\ \A i, j \in 1..Cardinality(ids) :
          i < j => Recency(coll, table[seq[i]]) >= Recency(coll, table[seq[j]])}

\* Math.min(parseInt(limit || '20'), 50); limit is <<>> when the parameter is
\* missing
SearchLimit(limit) ==
  LET n == IF IsSome(limit) THEN Val(limit) ELSE DefaultLimit
  IN IF n < MaxLimit THEN n ELSE MaxLimit

\* Variant: every collection queried whatever the type.
InScopeAlways(coll, type) == TRUE

\* the collection is in scope: no type, type 'all', or the collection's name
InScope(coll, type) == type = None \/ type = Some(coll) \/ type = Some("all")

\* Variant: take: limit for every collection.
TakeOfFullLimit(coll, type, lim) == <<lim, 1>>

\* take: the limit for the named collection, else Math.min(limit / 4, 10), as
\* the pair numerator, denominator
TakeOf(coll, type, lim) ==
  IF type = Some(coll) THEN <<lim, 1>>
  ELSE IF lim < ShareDivisor * MaxShare THEN <<lim, ShareDivisor>> ELSE <<MaxShare, 1>>

\* take is an integer (the store rejects any other number)
TakeIsInt(t) == t[1] % t[2] = 0

\* take n of a list: the first n, or for a negative n the last -n
Take(seq, n) ==
  IF n >= 0 THEN SubSeq(seq, 1, IF n < Len(seq) THEN n ELSE Len(seq))
  ELSE SubSeq(seq, (IF 0 - n < Len(seq) THEN Len(seq) + n ELSE 0) + 1, Len(seq))

TypeTag(coll) ==
  CASE coll = "contacts" -> "contact" [] coll = "opportunities" -> "opportunity"
    [] coll = "communications" -> "communication" [] coll = "documents" -> "document"

\* one result: the row's own columns with the type tag (the display strings
\* are left out)
SearchResult(coll, table, i) == [id |-> i, type |-> TypeTag(coll), row |-> table[i]]

\* the results of one collection, for one order the store returns
CollectionResults(coll, table, type, lim, seq) ==
  IF ~InScope(coll, type) THEN <<>>
  ELSE LET t == TakeOf(coll, type, lim)
           ids == Take(seq, t[1] \div t[2])
       IN [k \in 1..Len(ids) |-> SearchResult(coll, table, ids[k])]

\* Variant: the documents left out of the total.
SearchBodyShortTotal(cs, os, ms, ds) ==
  [contacts |-> cs, opportunities |-> os, communications |-> ms, documents |-> ds,
   total |-> Len(cs) + Len(os) + Len(ms)]

\* searchResults with its total
SearchBody(cs, os, ms, ds) ==
  [contacts |-> cs, opportunities |-> os, communications |-> ms, documents |-> ds,
   total |-> Len(cs) + Len(os) + Len(ms) + Len(ds)]

\* every response the handler may give; query and type are <<>> when missing
SearchResponses(cts, ops, cms, dcs, u, query, type, limit) ==
  IF ~Authenticated(u) THEN {[code |-> 401]}
  ELSE IF query = None \/ Val(query) = <<>> THEN {[code |-> 200, results |-> <<>>]}
  ELSE LET lim == SearchLimit(limit)
           q == Val(query)
       IN IF \E c \in Collections : InScope(c, type) /\ ~TakeIsInt(TakeOf(c, type, lim))
          THEN {[code |-> 500]}
          ELSE {[code |-> 200] @@ SearchBody(
                  CollectionResults("contacts", cts, type, lim, sc),
                  CollectionResults("opportunities", ops, type, lim, so),
                  CollectionResults("communications", cms, type, lim, sm),
                  CollectionResults("documents", dcs, type, lim, sd)) :
                  sc \in RecentFirst("contacts", cts, SearchHits("contacts", cts, u, q)),
                  so \in RecentFirst("opportunities", ops, SearchHits("opportunities", ops, u, q)),
                  sm \in RecentFirst("communications", cms, SearchHits("communications", cms, u, q)),
                  sd \in RecentFirst("documents", dcs, SearchHits("documents", dcs, u, q))}

Search(u, query, type, limit) ==
  /\ \E r \in SearchResponses(contacts, opps, comms, docs, u, query, type, limit) :
       resp' = [op |-> "search", caller |-> u, query |-> query, type |-> type,
                limit |-> limit, body |-> r]
  /\ UNCHANGED <<opps, oppSeq, contacts, comms, docs, files, now, movers, profiles, docLog>>

(***************************************************************************)
(* GET and POST /api/contacts, GET /api/contacts/[id].                     *)
(***************************************************************************)
\* POST /api/contacts: the row a create stores
NewContactRow(u, v, t) ==
  [userId |-> u, name |-> v.name, email |-> Opt(v, "email"), phone |-> Opt(v, "phone"),
   company |-> Opt(v, "company"), title |-> Opt(v, "title"),
   address |-> Opt(v, "address"), website |-> Opt(v, "website"), updatedAt |-> t]

\* where of the listing; an empty parameter counts as missing
ContactListed(store, u, query, company) ==
  {i \in Stored(store) :
     /\ store[i].userId = u
     /\ query # <<>> =>
          \/ Contains(store[i].name, query)
          \/ OptContains(store[i].email, query)
          \/ OptContains(store[i].company, query)
     /\ company # <<>> => OptContains(store[i].company, company)}

\* _count: the rows of a table that name the contact
RelatedTo(table, id) == {j \in Stored(table) : table[j].contactId = Some(id)}

ContactPageSize == 20

\* the listing handler with the default page and limit
ContactListResponses(store, ops, cms, u, query, company) ==
  IF ~Authenticated(u) THEN {[code |-> 401]}
  ELSE LET hits == ContactListed(store, u, query, company)
       IN {[code |-> 200,
            contacts |-> SubSeq(seq, 1, IF Len(seq) < ContactPageSize THEN Len(seq)
                                        ELSE ContactPageSize),
            counts |-> [i \in hits |->
                          [opportunities |-> Cardinality(RelatedTo(ops, i)),
                           communications |-> Cardinality(RelatedTo(cms, i))]],
            pagination |-> [page |-> DefaultPage, limit |-> ContactPageSize,
                            total |-> Cardinality(hits),
                            pages |-> (Cardinality(hits) + ContactPageSize - 1)
                                        \div ContactPageSize]] :
             seq \in RecentFirst("contacts", store, hits)}

ListContacts(u, query, company) ==
  /\ \E r \in ContactListResponses(contacts, opps, comms, u, query, company) :
       resp' = [op |-> "contacts", caller |-> u, query |-> query, body |-> r]
  /\ UNCHANGED <<opps, oppSeq, contacts, comms, docs, files, now, movers, profiles, docLog>>

ContactCreateOutcome(store, u, b, id, t) ==
  IF ~Authenticated(u) THEN Outcome(401, store)
  ELSE IF ~ContactValid(b, FALSE) THEN Outcome(400, store)
  ELSE Outcome(201, [store EXCEPT ![id] = NewContactRow(u, b, t)])

\* the id a create gets: one that names no row
FreshId(table) == CHOOSE i \in DOMAIN table : table[i] = NoRow

CreateContact(u, b) ==
  /\ \E i \in DOMAIN contacts : contacts[i] = NoRow
  /\ contacts' = ContactCreateOutcome(contacts, u, b, FreshId(contacts), now).table
  /\ UNCHANGED <<opps, oppSeq, comms, docs, files, now, movers, resp, profiles, docLog>>

RelatedTake == 5

\* GET /api/contacts/[id]: the caller's contact with its opportunities and
\* its five newest communications
ContactGetResponses(store, ops, cms, u, id) ==
  IF ~Authenticated(u) THEN {[code |-> 401]}
  ELSE IF FindFirstOwned(store, id, u) = NoRow THEN {[code |-> 404]}
  ELSE {[code |-> 200, contact |-> store[id], opportunities |-> RelatedTo(ops, id),
         communications |-> SubSeq(seq, 1, IF Len(seq) < RelatedTake THEN Len(seq)
                                           ELSE RelatedTake)] :
          seq \in NewestFirst(cms, RelatedTo(cms, id))}

GetContact(u, id) ==
  /\ \E r \in ContactGetResponses(contacts, opps, comms, u, id) :
       resp' = [op |-> "contact", caller |-> u, id |-> id, body |-> r]
  /\ UNCHANGED <<opps, oppSeq, contacts, comms, docs, files, now, movers, profiles, docLog>>

(***************************************************************************)
(* GET and POST /api/communications.                                       *)
(***************************************************************************)
\* where of the listing; an empty parameter counts as missing
CommListed(store, u, type, contactId, opportunityId, query) ==
  {i \in Stored(store) :
     /\ store[i].userId = u
     /\ type # "" => store[i].type = type
     /\ contactId # "" => store[i].contactId = Some(contactId)
     /\ opportunityId # "" => store[i].opportunityId = Some(opportunityId)
     /\ query # <<>> =>
          (OptContains(store[i].subject, query) \/ OptContains(store[i].content, query))}

\* the listing handler with the default page and limit (those of the
\* documents listing); the clock counts days
CommListResponses(store, u, type, contactId, opportunityId, query, t) ==
  IF ~Authenticated(u) THEN {[code |-> 401]}
  ELSE LET hits == CommListed(store, u, type, contactId, opportunityId, query)
           week == {i \in CommListed(store, u, "", "", "", <<>>) :
                      store[i].createdAt >= t - Week}
       IN {[code |-> 200,
            communications |-> SubSeq(seq, 1, IF Len(seq) < DefaultPageSize THEN Len(seq)
                                              ELSE DefaultPageSize),
            pagination |-> [page |-> DefaultPage, limit |-> DefaultPageSize,
                            total |-> Cardinality(hits),
                            totalPages |-> (Cardinality(hits) + DefaultPageSize - 1)
                                             \div DefaultPageSize],
            stats |-> [ty \in CommTypes |->
                         Cardinality({i \in week : store[i].type = ty})]
                      @@ [total |-> Cardinality(week)]] :
             seq \in NewestFirst(store, hits)}

ListCommunications(u, type, query) ==
  /\ \E r \in CommListResponses(comms, u, type, "", "", query, now) :
       resp' = [op |-> "communications", caller |-> u, query |-> query, body |-> r]
  /\ UNCHANGED <<opps, oppSeq, contacts, comms, docs, files, now, movers, profiles, docLog>>

\* createCommunicationSchema: type and direction are required
CommCreateValid(b) ==
  /\ Has(b, "type") /\ b.type \in CommTypes
  /\ Has(b, "direction") /\ b.direction \in Directions

\* the create fails in the store: a date string that is no date, or a
\* reference to a row that does not exist
CommCreateFails(b, cts, ops) ==
  \/ \E k \in DOMAIN b \cap CommDateKeys : b[k] # <<>> /\ ~IsDatetime(b[k])
  \/ Has(b, "contactId") /\ b.contactId \notin Stored(cts)
  \/ Has(b, "opportunityId") /\ b.opportunityId \notin Stored(ops)

CommCreateOutcome(store, cts, ops, u, b, id, t) ==
  IF ~Authenticated(u) THEN Outcome(401, store)
  ELSE IF ~CommCreateValid(b) THEN Outcome(400, store)
  ELSE IF CommCreateFails(b, cts, ops) THEN Outcome(500, store)
  ELSE Outcome(200, [store EXCEPT ![id] = NewCommunicationRow(u, b, t)])

CreateCommunication(u, b) ==
  /\ \E i \in DOMAIN comms : comms[i] = NoRow
  /\ comms' = CommCreateOutcome(comms, contacts, opps, u, b, FreshId(comms), now).table
  /\ UNCHANGED <<opps, oppSeq, contacts, docs, files, now, movers, resp, profiles, docLog>>

(***************************************************************************)
(* GET and PUT /api/user/preferences.                                      *)
(***************************************************************************)
Themes == {"light", "dark", "system"}
DefaultTheme == "system"
DefaultTimezone == "UTC"

\* updatePreferencesSchema: every key optional, the theme one of three
PreferencesValid(b) == Has(b, "theme") => b.theme \in Themes

\* the response: theme, timezone and preferences of the profile
PreferencesBody(row) ==
  [theme |-> row.theme, timezone |-> row.timezone, preferences |-> row.preferences]

\* A profile is found and upserted by its userId, which the store keeps
\* unique: the table is a function of the user, NoRow where there is none.
DefaultProfile(u) ==
  [userId |-> u, theme |-> DefaultTheme, timezone |-> DefaultTimezone,
   preferences |-> Empty, updatedAt |-> None]

\* Variant: the defaults written on every read.
PreferencesGetAlwaysCreates(pf, u) ==
  IF ~Authenticated(u) THEN [code |-> 401, table |-> pf, body |-> Empty]
  ELSE [code |-> 200, table |-> [pf EXCEPT ![u] = DefaultProfile(u)],
        body |-> PreferencesBody(DefaultProfile(u))]

\* GET: the caller's profile, created with the defaults when there is none
PreferencesGetOutcome(pf, u) ==
  IF ~Authenticated(u) THEN [code |-> 401, table |-> pf, body |-> Empty]
  ELSE LET \* updatedAt of a created profile is left to the schema: None
           row == IF pf[u] = NoRow THEN DefaultProfile(u) ELSE pf[u]
       IN [code |-> 200, table |-> [pf EXCEPT ![u] = row], body |-> PreferencesBody(row)]

GetPreferences(u) ==
  LET out == PreferencesGetOutcome(profiles, u) IN
    /\ profiles' = out.table
    /\ resp' = [op |-> "preferences", method |-> "GET", caller |-> u,
                body |-> [code |-> out.code] @@ out.body]
    /\ UNCHANGED <<opps, oppSeq, contacts, comms, docs, files, now, movers, docLog>>

\* a value of the body, or the default when it is missing or empty
OrDefault(b, k, empty, default) == IF Has(b, k) /\ b[k] # empty THEN b[k] ELSE default

\* PUT: the parse, then the upsert of the caller's profile
PreferencesPutOutcome(pf, u, b, t) ==
  IF ~Authenticated(u) THEN [code |-> 401, table |-> pf, body |-> Empty]
  ELSE IF ~PreferencesValid(b) THEN [code |-> 400, table |-> pf, body |-> Empty]
  ELSE LET row == IF pf[u] = NoRow
                  THEN [userId |-> u, theme |-> OrDefault(b, "theme", "", DefaultTheme),
                        timezone |-> OrDefault(b, "timezone", "", DefaultTimezone),
                        preferences |-> OrDefault(b, "preferences", None, Empty),
                        updatedAt |-> None]
                  ELSE ApplyData(pf[u], b @@ [updatedAt |-> Some(t)])
       IN [code |-> 200, table |-> [pf EXCEPT ![u] = row], body |-> PreferencesBody(row)]

PutPreferences(u, b) ==
  LET out == PreferencesPutOutcome(profiles, u, b, now) IN
    /\ profiles' = out.table
    /\ resp' = [op |-> "preferences", method |-> "PUT", caller |-> u,
                body |-> [code |-> out.code] @@ out.body]
    /\ UNCHANGED <<opps, oppSeq, contacts, comms, docs, files, now, movers, docLog>>

(***************************************************************************)
(* The pipeline specification: the four writing handlers of the            *)
(* opportunity table, each user creating one opportunity, at one clock     *)
(* reading.                                                                *)
(***************************************************************************)
TitleDeal == <<"D", "e", "a", "l">>
SuppliedInstant == 7
SuppliedDate == DateStr(SuppliedInstant)
TargetIds == {"o1", "o3", GhostId}

MoveExtras ==
  {Empty, [wonDate |-> SuppliedDate], [lostReason |-> ""], [lostReason |-> "price"]}

MoveBodies ==
  {[opportunityId |-> i, newStatus |-> s, newOrder |-> 0] @@ x :
     i \in TargetIds, s \in Statuses, x \in MoveExtras}
  \cup {[opportunityId |-> i, newStatus |-> BogusStatus, newOrder |-> 0] : i \in TargetIds}
  \cup {[opportunityId |-> i, newStatus |-> "closed-won", newOrder |-> 0,
         wonDate |-> NotADate] : i \in TargetIds}

StatusInputs == {Empty} \cup {[status |-> x] : x \in Statuses \cup {BogusStatus}}
CreateBodies == {[title |-> TitleDeal] @@ s : s \in StatusInputs}
EditBodies == {s @@ p : s \in StatusInputs, p \in {Empty, [probability |-> 50]}}

\* the requests of the second tenant, who keeps one opportunity of its own
OtherUser == "u2"
OtherMoveBodies ==
  {[opportunityId |-> i, newStatus |-> s, newOrder |-> 0] :
     i \in {"o1", "o3"}, s \in {"negotiating", "closed-won"}}
OtherEditBodies == {[status |-> "closed-lost"]}

NoResp == [op |-> "none"]

InitStore ==
  /\ opps = [i \in OppIds |-> NoRow]
  /\ oppSeq = [u \in Users |-> 0]
  /\ contacts = [i \in ContactIds |-> NoRow]
  /\ comms = [i \in CommIds |-> NoRow]
  /\ docs = [i \in DocIds |-> NoRow]
  /\ files = {}
  /\ movers = Empty
  /\ profiles = [u \in Users |-> NoRow]
  /\ docLog = DocLogOf(docs)
  /\ resp = NoResp

Init == InitStore /\ now = 1

Next ==
  \/ \E b \in CreateBodies : oppSeq["u1"] < 1 /\ CreateOpportunity("u1", b)
  \/ \E i \in TargetIds, b \in EditBodies : UpdateOpportunity("u1", i, b)
  \/ \E i \in TargetIds : DeleteOpportunity("u1", i)
  \/ \E b \in MoveBodies : MoveOpportunity("u1", b)
  \/ CreateOpportunity(OtherUser, [title |-> TitleDeal])
  \/ \E i \in {"o1", "o3"}, b \in OtherEditBodies : UpdateOpportunity(OtherUser, i, b)
  \/ \E b \in OtherMoveBodies : MoveOpportunity(OtherUser, b)

Spec == Init /\ [][Next]_vars

(***************************************************************************)
(* Claims on the pipeline specification.                                   *)
(***************************************************************************)
\* C3: after a successful Move to closed-won the opportunity's probability is
\* 100 and its won-date is the supplied date, or the clock reading when none is
\* supplied; after a successful Move to closed-lost its probability is 0 and
\* its lost-reason is the supplied non-empty reason, or "Not specified".
C3_MoveToClosed ==
  \A u \in Users, b \in MoveBodies :
    LET out == MoveOutcome(opps, u, b, now) IN
      out.code = 200 =>
        LET row == out.table[b.opportunityId] IN
          /\ b.newStatus = "closed-won" =>
               /\ row.probability = 100
               /\ IsSome(row.wonDate)
               /\ Val(row.wonDate) = IF Has(b, "wonDate") THEN b.wonDate.instant ELSE now
          /\ b.newStatus = "closed-lost" =>
               /\ row.probability = 0
               /\ IsSome(row.lostReason)
               /\ Val(row.lostReason) # ""
               /\ Val(row.lostReason) =
                    IF Has(b, "lostReason") /\ b.lostReason # ""
                    THEN b.lostReason ELSE "Not specified"

\* a won opportunity carrying the clock's date and a lost one carrying the
\* default reason are both in the store
C3_Witness ==
  /\ \E i \in Stored(opps) :
       /\ opps[i].status = "closed-won" /\ opps[i].probability = 100
       /\ opps[i].wonDate = Some(now)
  /\ \E i \in Stored(opps) :
       /\ opps[i].status = "closed-lost" /\ opps[i].probability = 0
       /\ opps[i].lostReason = Some("Not specified")

\* C4: every stored opportunity whose status is closed-won has probability 100
\* and every one whose status is closed-lost has probability 0.
C4_ClosedForcesProbability ==
  \A i \in Stored(opps) :
    /\ opps[i].status = "closed-won" => opps[i].probability = 100
    /\ opps[i].status = "closed-lost" => opps[i].probability = 0

\* C5: the stored status of every opportunity is one of the six stages, and a
\* create, edit or Move request carrying any other status is answered 400 and
\* leaves the table as it was.
C5_StatusEnumeration ==
  /\ \A i \in Stored(opps) : opps[i].status \in Statuses
  /\ \A u \in Users :
       /\ \A b \in CreateBodies :
            (Has(b, "status") /\ b.status \notin Statuses) =>
              CreateOutcome(opps, contacts, u, b, GhostId, now) = Outcome(400, opps)
       /\ \A b \in EditBodies, i \in TargetIds, touched \in BOOLEAN :
            (Has(b, "status") /\ b.status \notin Statuses) =>
              EditOutcome(opps, contacts, u, i, b, touched, now) = Outcome(400, opps)
       /\ \A b \in MoveBodies :
            b.newStatus \notin Statuses => MoveOutcome(opps, u, b, now) = Outcome(400, opps)

\* an owner's requests with an unknown status meet a stored opportunity that
\* has left the default stage
C5_Witness ==
  \E u \in Users, i \in Stored(opps) :
    /\ opps[i].userId = u /\ opps[i].status = "negotiating"
    /\ EditOutcome(opps, contacts, u, i, [status |-> BogusStatus], TRUE, now).code = 400
    /\ MoveOutcome(opps, u, [opportunityId |-> i, newStatus |-> BogusStatus,
                             newOrder |-> 0], now).code = 400

\* the Move request b of u names an opportunity that is absent or not u's
id_absent_or_foreign(u, b) ==
  b.opportunityId \notin Stored(opps) \/ opps[b.opportunityId].userId # u

\* C6 as claimed: every Move request naming an opportunity that does not exist
\* or is not the caller's is answered 404 and changes no opportunity.
C6_ForeignMoveNotFound ==
  \A u \in Users, b \in MoveBodies :
    (id_absent_or_foreign(u, b)) => MoveOutcome(opps, u, b, now) = Outcome(404, opps)

\* C6 as amended: such a request is answered 404 when its body passes the
\* schema and 400 when it does not, and changes no opportunity either way.
C6_ForeignMoveRejected ==
  \A u \in Users, b \in MoveBodies :
    (id_absent_or_foreign(u, b)) =>
      MoveOutcome(opps, u, b, now) =
        Outcome(IF ReorderValid(b) THEN 404 ELSE 400, opps)

\* a well-formed Move names another user's stored opportunity
C6_Witness ==
  \E u \in Users, b \in MoveBodies :
    /\ ReorderValid(b)
    /\ b.opportunityId \in Stored(opps)
    /\ opps[b.opportunityId].userId # u
    /\ opps[b.opportunityId].status # b.newStatus
    /\ MoveOutcome(opps, u, b, now).code = 404

(***************************************************************************)
(* The listing specification: a store of opportunities as creates leave    *)
(* it, and listing requests with every combination of filters.             *)
(***************************************************************************)
TitleAb == <<"A", "b">>
TitleCd == <<"C", "d">>
QueryAb == <<"a", "b">>

SeedBodies ==
  {[title |-> ti, status |-> st] @@ v @@ c :
     ti \in {TitleAb, TitleCd}, st \in Statuses,
     v \in {Empty, [value |-> 1000]}, c \in {Empty, [contactId |-> "c1"]}}
SecondSeedBodies ==
  {[title |-> TitleAb, status |-> st, value |-> 2000] @@ c :
     st \in {"lead", "closed-won", "closed-lost"}, c \in {Empty, [contactId |-> "c1"]}}
OtherSeedBody == [title |-> TitleAb, status |-> "closed-won", value |-> 500, contactId |-> "c1"]

SeedRows(u, bodies, t) == {NewOpportunityRow(u, OpportunityParsed(b), t) : b \in bodies}

InitList ==
  /\ opps \in {[o1 |-> a, o2 |-> b, o3 |-> c] :
                 a \in SeedRows("u1", SeedBodies, 0) \cup {NoRow},
                 b \in SeedRows("u1", SecondSeedBodies, 0) \cup {NoRow},
                 c \in SeedRows(OtherUser, {OtherSeedBody}, 0) \cup {NoRow}}
  /\ oppSeq = [u \in Users |-> Cardinality({i \in Stored(opps) : opps[i].userId = u})]
  /\ contacts = [i \in ContactIds |->
                   IF i = "c1" THEN NewContactRow("u1", [name |-> TitleAb], 0) ELSE NoRow]
  /\ comms = [i \in CommIds |-> NoRow]
  /\ docs = [i \in DocIds |-> NoRow]
  /\ files = {}
  /\ movers = Empty
  /\ profiles = [u \in Users |-> NoRow]
  /\ docLog = DocLogOf(docs)
  /\ resp = NoResp
  /\ now = 1

QueryFilters == {<<>>, QueryAb}
StatusFilters == {"", "lead", "closed-won"}
ContactFilters == {"", "c1"}

NextList ==
  \E u \in Users, q \in QueryFilters, st \in StatusFilters, c \in ContactFilters :
    ListOpportunities(u, q, st, c)

SpecList == InitList /\ [][NextList]_vars

\* the ids of a list
Elems(seq) == {seq[k] : k \in 1..Len(seq)}
\* how often id i stands in list seq
Count(seq, i) == Cardinality({k \in 1..Len(seq) : seq[k] = i})

Listed == resp.op = "list" /\ resp.body.code = 200

\* C7: in every kanban listing, every opportunity of the filtered result
\* stands in exactly one of the six buckets, the one its status names, once;
\* and the six buckets together hold exactly the filtered result.
C7_KanbanPartition ==
  Listed =>
    LET k == resp.body.kanban
        all == Elems(resp.body.opportunities)
    IN /\ DOMAIN k = {"lead", "qualified", "proposal", "negotiating", "closed-won", "closed-lost"}
       /\ \A i \in all :
            /\ Count(k[KanbanKey(opps[i].status)], i) = 1
            /\ \A key \in DOMAIN k \ {KanbanKey(opps[i].status)} : Count(k[key], i) = 0
       /\ UNION {Elems(k[key]) : key \in DOMAIN k} = all
       /\ all = Matching(opps, resp.caller, resp.query, resp.status, resp.contactId)

\* a listing whose query filter keeps one closed-lost opportunity of the caller
\* and drops another opportunity of the same caller
C7_Witness ==
  /\ Listed
  /\ resp.query = QueryAb
  /\ Len(resp.body.opportunities) = 1
  /\ Len(resp.body.kanban["closed-lost"]) = 1
  /\ \E i \in Stored(opps) :
       i \notin Elems(resp.body.opportunities) /\ opps[i].userId = resp.caller

\* the stats of the caller's full set of opportunities
FullStats(u) ==
  Stats(opps, CHOOSE seq \in Orderings(opps, Matching(opps, u, <<>>, "", "")) : TRUE)

\* C10: the stats of a listing are those of the caller's full, unfiltered set
\* of opportunities, whatever filters the request carries.
C10_StatsUnfiltered ==
  Listed => resp.body.stats = FullStats(resp.caller)

(***************************************************************************)
(* The board specification: one user's two cards moved between columns at  *)
(* chosen stage orders while the clock runs.                               *)
(***************************************************************************)
OrderVals == (0 - 1)..MaxOrder
BoardStatuses == {"lead", "negotiating", "qualified"}
BoardMoveBodies ==
  {[opportunityId |-> i, newStatus |-> st, newOrder |-> n] :
     i \in {"o1", "o2"}, st \in BoardStatuses, n \in OrderVals}

InitBoard == InitStore /\ now = 0

NextBoard ==
  \/ CreateOpportunity("u1", [title |-> TitleDeal])
  \/ \E b \in BoardMoveBodies : MoveOpportunity("u1", b)
  \/ \E i \in {"o1", "o2"} : UpdateOpportunity("u1", i, [status |-> "negotiating"])
  \/ \E b \in BoardMoveBodies : MoveOpportunity(OtherUser, b)
  \/ Tick

SpecBoard == InitBoard /\ [][NextBoard]_vars

\* the place of id i in list seq (0 when it is not there)
Position(seq, i) == IF i \in Elems(seq) THEN CHOOSE k \in 1..Len(seq) : seq[k] = i ELSE 0

\* the successful Moves of the board that change the status and ask for order 0
MovesToFront ==
  {b \in BoardMoveBodies :
     /\ b.newOrder = 0
     /\ MoveOutcome(opps, "u1", b, now).code = 200
     /\ opps[b.opportunityId].status # b.newStatus}

\* the unfiltered kanban listings taken right after Move b
ListingsAfter(b) ==
  {r.kanban[KanbanKey(b.newStatus)] :
     r \in ListResponses(MoveOutcome(opps, "u1", b, now).table, "u1", <<>>, "", "")}

\* C8 as claimed: after a successful Move to another status with newOrder 0 the
\* opportunity is stored with that status and stageOrder 0 and is the first
\* of its bucket in the unfiltered listing, whatever else the bucket holds.
C8_MovedIsFirst ==
  \A b \in MovesToFront :
    /\ MoveOutcome(opps, "u1", b, now).table[b.opportunityId].status = b.newStatus
    /\ MoveOutcome(opps, "u1", b, now).table[b.opportunityId].stageOrder = 0
    /\ \A bucket \in ListingsAfter(b) : Position(bucket, b.opportunityId) = 1

\* another opportunity of the target bucket that the orderBy cannot place
\* after the moved one: a negative stageOrder, or stageOrder 0 and an
\* updatedAt that is not earlier than the Move
Rival(row, b, t) ==
  /\ row.status = b.newStatus
  /\ row.stageOrder < 0 \/ (row.stageOrder = 0 /\ row.updatedAt >= t)

\* C8 as amended: the opportunity is stored with the target status and
\* stageOrder 0 and stands in the target bucket ahead of every other
\* opportunity of the bucket whose stageOrder is above 0, or is 0 with an
\* updatedAt earlier than the Move; it is first when the bucket holds no
\* opportunity with a negative stageOrder or with stageOrder 0 and the
\* updatedAt of the Move.
C8_MovedAheadOfLaterCards ==
  \A b \in MovesToFront :
    LET after == MoveOutcome(opps, "u1", b, now).table
        me == b.opportunityId
    IN /\ after[me].status = b.newStatus
       /\ after[me].stageOrder = 0
       /\ \A bucket \in ListingsAfter(b) :
            /\ Position(bucket, me) >= 1
            /\ \A j \in Elems(bucket) \ {me} :
                 ~Rival(after[j], b, now) => Position(bucket, me) < Position(bucket, j)
            /\ (\A j \in Elems(bucket) \ {me} : ~Rival(after[j], b, now))
                 => Position(bucket, me) = 1

\* a card was moved with order 0 into a column that held an older card of
\* order 0, and the listing shows it first of the two
C8_Witness ==
  \E i, j \in Stored(opps) :
    /\ i # j
    /\ opps[i].userId = "u1" /\ opps[j].userId = "u1"
    /\ opps[i].status = "negotiating" /\ opps[j].status = "negotiating"
    /\ opps[i].stageOrder = 0 /\ opps[j].stageOrder = 0
    /\ opps[i].updatedAt = now /\ opps[j].updatedAt < now
    /\ \A r \in ListResponses(opps, "u1", <<>>, "", "") : r.kanban.negotiating = <<i, j>>

(***************************************************************************)
(* The race specification: two Move requests on one stored opportunity,    *)
(* their reads and writes interleaved in every order.                      *)
(***************************************************************************)
RaceBodies ==
  {[opportunityId |-> "o1", newStatus |-> st, newOrder |-> n] :
     st \in {"qualified", "closed-won"}, n \in 0..MaxOrder}

InitRace ==
  /\ opps = [i \in OppIds |->
               IF i = "o1"
               THEN NewOpportunityRow("u1", OpportunityParsed([title |-> TitleDeal]), 0)
               ELSE NoRow]
  /\ oppSeq = [u \in Users |-> IF u = "u1" THEN 1 ELSE 0]
  /\ contacts = [i \in ContactIds |-> NoRow]
  /\ comms = [i \in CommIds |-> NoRow]
  /\ docs = [i \in DocIds |-> NoRow]
  /\ files = {}
  /\ movers = [p \in Procs |-> IdleMover]
  /\ profiles = [u \in Users |-> NoRow]
  /\ docLog = DocLogOf(docs)
  /\ resp = NoResp
  /\ now = 0

NextRace ==
  \/ \E p \in Procs, b \in RaceBodies : MoveBegin(p, "u1", b)
  \/ \E p \in Procs : MoveCommit(p)
  \/ Tick

SpecRace == InitRace /\ [][NextRace]_vars

Finished == {p \in Procs : movers[p].pc = "done"}
Writers == {p \in Finished : movers[p].nth > 0}
LastWriter == CHOOSE p \in Writers : \A q \in Writers : movers[q].nth <= movers[p].nth

\* C9: Move requests racing on one opportunity all end with 200, and from the
\* first write on the stored status and stageOrder are the pair of the
\* request whose write came last, never the status of one request with the
\* stageOrder of another.
C9_LastWriteWins ==
  /\ \A p \in Finished : movers[p].code = 200
  /\ Writers # {} =>
       /\ opps["o1"].status = movers[LastWriter].body.newStatus
       /\ opps["o1"].stageOrder = movers[LastWriter].body.newOrder

\* both requests had read before either wrote, they asked for different
\* statuses and different orders, and both have written
C9_Witness ==
  /\ Writers = Procs
  /\ \A p \in Procs : movers[p].began = 0
  /\ movers["p1"].body.newStatus # movers["p2"].body.newStatus
  /\ movers["p1"].body.newOrder # movers["p2"].body.newOrder

(***************************************************************************)
(* The ownership specification: two users, each owning one contact, one    *)
(* opportunity, one communication and one document with its stored file,   *)
(* and each sending update and delete requests for every id.               *)
(***************************************************************************)
OwnerOf == [c1 |-> "u1", c2 |-> "u2", o1 |-> "u1", o2 |-> "u1", o3 |-> "u2",
            m1 |-> "u1", m2 |-> "u2", d1 |-> "u1", d2 |-> "u2"]
SeedFile == [name |-> TitleAb, type |-> "text/plain", size |-> Len(TitleAb)]

InitOwn ==
  /\ contacts = [i \in ContactIds |-> NewContactRow(OwnerOf[i], [name |-> TitleAb], 0)]
  /\ opps = [i \in OppIds |->
               IF i = "o2" THEN NoRow
               ELSE NewOpportunityRow(OwnerOf[i], OpportunityParsed([title |-> TitleDeal]), 0)]
  /\ oppSeq = [u \in Users |-> 1]
  /\ comms = [i \in CommIds |->
                NewCommunicationRow(OwnerOf[i], [type |-> "email", direction |-> "outbound"], 0)]
  /\ docs = [i \in DocIds |-> NewDocumentRow(OwnerOf[i], [file |-> SeedFile], StoredName(i), 0)]
  /\ files = {UploadPath(OwnerOf[i], StoredName(i)) : i \in DocIds}
  /\ movers = Empty
  /\ profiles = [u \in Users |-> NoRow]
  /\ docLog = DocLogOf(docs)
  /\ resp = NoResp
  /\ now = 1

OwnOppIds == {"o1", "o3", GhostId}
OwnOppBodies == {[status |-> "qualified"], [status |-> BogusStatus]}
OwnContactBodies == {[name |-> TitleCd], [name |-> <<>>], [email |-> TitleCd]}
OwnCommBodies == {[type |-> "phone"], [type |-> "fax"]}

NextOwn ==
  \/ \E u \in Users, i \in OwnOppIds, b \in OwnOppBodies : UpdateOpportunity(u, i, b)
  \/ \E u \in Users, i \in OwnOppIds : DeleteOpportunity(u, i)
  \/ \E u \in Users, i \in ContactIds, b \in OwnContactBodies : UpdateContact(u, i, b)
  \/ \E u \in Users, i \in ContactIds : DeleteContact(u, i)
  \/ \E u \in Users, i \in CommIds, b \in OwnCommBodies : UpdateCommunication(u, i, b)
  \/ \E u \in Users, i \in CommIds : DeleteCommunication(u, i)
  \/ \E u \in Users, i \in DocIds : DeleteDocument(u, i, "none")

SpecOwn == InitOwn /\ [][NextOwn]_vars

\* the ids of a table whose rows belong to somebody other than u
ForeignIds(table, u) == {i \in Stored(table) : table[i].userId # u}

\* the outcomes of every update and delete request u can send for id i, each
\* with the table it was computed from
OppWrites(u, i) ==
  {<<opps, EditOutcome(opps, contacts, u, i, b, touched, now)>> :
     b \in OwnOppBodies, touched \in BOOLEAN}
  \cup {<<opps, DeleteOutcome(opps, u, i)>>}
ContactWrites(u, i) ==
  {<<contacts, ContactEditOutcome(contacts, u, i, b, touched, now)>> :
     b \in OwnContactBodies, touched \in BOOLEAN}
  \cup {<<contacts, DeleteOutcome(contacts, u, i)>>}
CommWrites(u, i) ==
  {<<comms, CommEditOutcome(comms, contacts, opps, u, i, b)>> : b \in OwnCommBodies}
  \cup {<<comms, DeleteOutcome(comms, u, i)>>}
DocWrites(u, i) == {<<docs, DocDeleteOutcome(docs, files, u, i, fail)>> : fail \in Faults}

\* the requests of u for the ids of other users' rows
ForeignWrites(u) ==
  UNION ({OppWrites(u, i) : i \in ForeignIds(opps, u)}
         \cup {ContactWrites(u, i) : i \in ForeignIds(contacts, u)}
         \cup {CommWrites(u, i) : i \in ForeignIds(comms, u)}
         \cup {DocWrites(u, i) : i \in ForeignIds(docs, u)})

\* every request of u, for any id
AllWrites(u) ==
  UNION ({OppWrites(u, i) : i \in OwnOppIds}
         \cup {ContactWrites(u, i) : i \in ContactIds}
         \cup {CommWrites(u, i) : i \in CommIds}
         \cup {DocWrites(u, i) : i \in DocIds})

\* the outcome changed or removed no row but rows of u
OnlyOwnRows(u, w) ==
  \A i \in DOMAIN w[1] : w[2].table[i] # w[1][i] => w[1][i].userId = u

\* the outcome of a document request removed no file but files of u
OnlyOwnFiles(u) ==
  \A i \in DocIds, fail \in Faults :
    \A f \in files \ DocDeleteOutcome(docs, files, u, i, fail).files : f.dir = u

\* C1: as stated.  An update or delete request of A for the id of an entity
\* of B answers 404 and leaves the entity and the stored file as they were,
\* and only the owner's requests change or remove an entity.
C1_ForeignWriteNotFound ==
  \A u \in Users :
    /\ \A w \in ForeignWrites(u) : w[2].code = 404 /\ w[2].table = w[1]
    /\ \A w \in AllWrites(u) : OnlyOwnRows(u, w)
    /\ OnlyOwnFiles(u)

\* C1, amended: the request answers 404, or 400 when its body fails the
\* schema (which is checked before ownership); either way the entity and
\* the stored file stay as they were, and no update or delete request
\* changes or removes a row or a file of another user.
C1_ForeignWriteRejected ==
  \A u \in Users :
    /\ \A w \in ForeignWrites(u) : w[2].code \in {400, 404} /\ w[2].table = w[1]
    /\ \A i \in ForeignIds(opps, u), b \in OwnOppBodies, touched \in BOOLEAN :
         EditOutcome(opps, contacts, u, i, b, touched, now).code = 404
           <=> OpportunityValid(b, TRUE)
    /\ \A i \in ForeignIds(contacts, u), b \in OwnContactBodies, touched \in BOOLEAN :
         ContactEditOutcome(contacts, u, i, b, touched, now).code = 404
           <=> ContactValid(b, TRUE)
    /\ \A i \in ForeignIds(comms, u), b \in OwnCommBodies :
         CommEditOutcome(comms, contacts, opps, u, i, b).code = 404
           <=> CommUpdateValid(b)
    /\ \A i \in ForeignIds(opps, u) : DeleteOutcome(opps, u, i).code = 404
    /\ \A i \in ForeignIds(contacts, u) : DeleteOutcome(contacts, u, i).code = 404
    /\ \A i \in ForeignIds(comms, u) : DeleteOutcome(comms, u, i).code = 404
    /\ \A i \in ForeignIds(docs, u) :
         \A fail \in Faults :
           /\ DocDeleteOutcome(docs, files, u, i, fail).code = 404
           /\ DocDeleteOutcome(docs, files, u, i, fail).files = files
    /\ \A w \in AllWrites(u) : OnlyOwnRows(u, w)
    /\ OnlyOwnFiles(u)

\* u1 has changed or removed every entity of its own, and the four entities
\* of u2 and the file are still as seeded, each out of u1's reach
C1_Witness ==
  /\ opps["o1"] = NoRow /\ docs["d1"] = NoRow /\ comms["m1"] = NoRow
  /\ contacts["c1"] # NoRow /\ contacts["c1"].name = TitleCd
  /\ ForeignIds(opps, "u1") = {"o3"} /\ ForeignIds(contacts, "u1") = {"c2"}
  /\ ForeignIds(comms, "u1") = {"m2"} /\ ForeignIds(docs, "u1") = {"d2"}
  /\ files = {UploadPath("u2", StoredName("d2"))}
  /\ \A w \in ForeignWrites("u1") : w[2].table = w[1]
  /\ DocDeleteOutcome(docs, files, "u1", "d2", "none").code = 404

(***************************************************************************)
(* The search specification: a store holding two rows of every collection, *)
(* the first of u1 and the second of either user, with texts that match    *)
(* the query in either letter case or do not match, and searches by both   *)
(* users with every kind of query, type and limit.                         *)
(***************************************************************************)
TextXab == <<"x", "a", "B">>
Shapes == [first : {TitleAb, TitleCd}, second : {TextXab, TitleCd}, owner : Users]

SeedContact(i, sh) ==
  IF i = "c1" THEN NewContactRow("u1", [name |-> sh.first], 0)
  ELSE NewContactRow(sh.owner, [name |-> TitleCd, company |-> sh.second], 1)
SeedOpportunity(i, sh) ==
  IF i = "o1" THEN NewOpportunityRow("u1", OpportunityParsed([title |-> sh.first]), 0)
  ELSE IF i = "o3"
  THEN NewOpportunityRow(sh.owner, OpportunityParsed([title |-> TitleCd, description |-> sh.second]), 1)
  ELSE NoRow
SeedCommunication(i, sh) ==
  IF i = "m1"
  THEN NewCommunicationRow("u1", [type |-> "email", direction |-> "inbound", subject |-> sh.first], 0)
  ELSE NewCommunicationRow(sh.owner, [type |-> "task", direction |-> "outbound", content |-> sh.second], 1)
SeedDocument(i, sh) ==
  IF i = "d1" THEN NewDocumentRow("u1", [file |-> [SeedFile EXCEPT !.name = sh.first]], TitleCd, 0)
  ELSE NewDocumentRow(sh.owner, [file |-> [SeedFile EXCEPT !.name = sh.second]], TitleCd, 1)

InitSearch ==
  /\ \E sh \in Shapes :
       /\ contacts = [i \in ContactIds |-> SeedContact(i, sh)]
       /\ opps = [i \in OppIds |-> SeedOpportunity(i, sh)]
       /\ comms = [i \in CommIds |-> SeedCommunication(i, sh)]
       /\ docs = [i \in DocIds |-> SeedDocument(i, sh)]
  /\ oppSeq = [u \in Users |-> 1]
  /\ files = {docs[i].uploadPath : i \in DocIds}
  /\ movers = Empty
  /\ profiles = [u \in Users |-> NoRow]
  /\ docLog = DocLogOf(docs)
  /\ resp = NoResp
  /\ now = 1

Queries == {None, Some(<<>>), Some(QueryAb)}
Types == {None, Some("all"), Some("bogus")} \cup {Some(c) : c \in Collections}
Limits == {None, Some(1), Some(4), Some(6), Some(MaxLimit), Some(MaxLimit + 10)}

NextSearch ==
  \E u \in Users, query \in Queries, type \in Types, limit \in Limits :
    Search(u, query, type, limit)

SpecSearch == InitSearch /\ [][NextSearch]_vars

\* the response of a search that ran its queries
Searched == resp.op = "search" /\ Has(resp.body, "total")

\* the rows of table that another user than u owns and that match q
ForeignHits(coll, table, u, q) ==
  {i \in Stored(table) : table[i].userId # u /\ RowMatches(coll, table[i], q)}

\* C2: every entity in every collection of a search response belongs to the
\* caller of the search.
C2_SearchOwnedOnly ==
  Searched =>
    \A c \in Collections : \A k \in 1..Len(resp.body[c]) :
      resp.body[c][k].row.userId = resp.caller

\* u1 searched and got a result in each collection, while each collection
\* also holds a row of u2 that matches the query
C2_Witness ==
  /\ Searched /\ resp.caller = "u1"
  /\ \A c \in Collections : Len(resp.body[c]) >= 1
  /\ ForeignHits("contacts", contacts, "u1", Val(resp.query)) # {}
  /\ ForeignHits("opportunities", opps, "u1", Val(resp.query)) # {}
  /\ ForeignHits("communications", comms, "u1", Val(resp.query)) # {}
  /\ ForeignHits("documents", docs, "u1", Val(resp.query)) # {}

(***************************************************************************)
(* The stats specification: a store of up to three opportunities, with and *)
(* without a value, open, won and lost, of one user or two, and listings   *)
(* of it by both users.                                                    *)
(***************************************************************************)
StatsSeeds ==
  [o1 : SeedRows("u1", {[title |-> TitleAb, status |-> st] @@ v :
                          st \in {"lead", "negotiating", "closed-won", "closed-lost"},
                          v \in {Empty, [value |-> 1000]}}, 0),
   o2 : SeedRows("u1", {[title |-> TitleAb, status |-> st] @@ v :
                          st \in {"lead", "closed-won", "closed-lost"},
                          v \in {Empty, [value |-> 2000]}}, 0) \cup {NoRow},
   o3 : UNION {SeedRows(u, {[title |-> TitleCd, status |-> st, value |-> 500] :
                              st \in {"lead", "closed-won", "closed-lost"}}, 0) :
                 u \in Users} \cup {NoRow}]

InitStats ==
  /\ opps \in StatsSeeds
  /\ oppSeq = [u \in Users |-> Cardinality({i \in Stored(opps) : opps[i].userId = u})]
  /\ contacts = [i \in ContactIds |-> NoRow]
  /\ comms = [i \in CommIds |-> NoRow]
  /\ docs = [i \in DocIds |-> NoRow]
  /\ files = {}
  /\ movers = Empty
  /\ profiles = [u \in Users |-> NoRow]
  /\ docLog = DocLogOf(docs)
  /\ resp = NoResp
  /\ now = 1

NextStats ==
  \E u \in Users, st \in {"", "closed-won"} : ListOpportunities(u, <<>>, st, "")

SpecStats == InitStats /\ [][NextStats]_vars

\* the opportunities of a listing response, and those of them in the stages sts
ListedIds == Elems(resp.body.opportunities)
ListedIn(sts) == {i \in ListedIds : opps[i].status \in sts}
OpenStages == {"lead", "qualified", "proposal", "negotiating"}

\* the sum of the values of a set of opportunities, none counting as 0
RECURSIVE ValueSum(_)
ValueSum(ids) ==
  IF ids = {} THEN 0
  ELSE LET i == CHOOSE j \in ids : TRUE
       IN (IF opps[i].value = None THEN 0 ELSE opps[i].value[1]) + ValueSum(ids \ {i})

\* C11: winRate is 0 when no listed opportunity is closed-won or closed-lost,
\* and otherwise 100 * won / (won + lost) rounded to two decimals (here in
\* hundredths: the nearest integer to 10000 * won / (won + lost), a half
\* rounding up); it is never below 0 or above 100.
C11_WinRate ==
  Listed =>
    LET won == Cardinality(ListedIn({"closed-won"}))
        lost == Cardinality(ListedIn({"closed-lost"}))
        r == resp.body.stats.winRate
    IN /\ won + lost = 0 => r = 0
       /\ won + lost > 0 =>
            /\ 2 * (won + lost) * r - 20000 * won > 0 - (won + lost)
            /\ 2 * (won + lost) * r - 20000 * won <= won + lost
       /\ r >= 0 /\ r <= 10000

\* a listing of two won opportunities and a lost one: 66.67
C11_Witness ==
  /\ Listed
  /\ Cardinality(ListedIn({"closed-won"})) = 2
  /\ Cardinality(ListedIn({"closed-lost"})) = 1
  /\ resp.body.stats.winRate = 6667

\* C12: avgValue is 0 when the listing holds no opportunity, and otherwise
\* the total value divided by the number of opportunities, those without a
\* value counting in the number and adding 0 to the total.
C12_AvgValue ==
  Listed =>
    LET a == resp.body.stats.avgValue
        n == Cardinality(ListedIds)
    IN /\ a[2] > 0
       /\ n = 0 => a[1] = 0
       /\ n > 0 => a[1] * n = ValueSum(ListedIds) * a[2]

\* a listing of three opportunities, one of them without a value
C12_Witness ==
  /\ Listed
  /\ Cardinality(ListedIds) = 3
  /\ \E i \in ListedIds : opps[i].value = None
  /\ resp.body.stats.avgValue = <<2500, 3>>

\* C13: pipelineValue is the sum of the values of the open opportunities,
\* wonValue that of the closed-won ones, totalValue that of all, a missing
\* value adding 0; won, lost and active count the closed-won, the closed-lost
\* and the open opportunities and add up to total.
C13_ValueSums ==
  Listed =>
    LET st == resp.body.stats IN
      /\ st.total = Cardinality(ListedIds)
      /\ st.totalValue = ValueSum(ListedIds)
      /\ st.pipelineValue = ValueSum(ListedIn(OpenStages))
      /\ st.wonValue = ValueSum(ListedIn({"closed-won"}))
      /\ st.conversionStats.won = Cardinality(ListedIn({"closed-won"}))
      /\ st.conversionStats.lost = Cardinality(ListedIn({"closed-lost"}))
      /\ st.conversionStats.active = Cardinality(ListedIn(OpenStages))
      /\ st.conversionStats.won + st.conversionStats.lost + st.conversionStats.active = st.total

\* the listing of 1000 (lead), 2000 (closed-won) and 500 (closed-lost)
C13_Witness ==
  /\ Listed
  /\ {<<opps[i].status, opps[i].value>> : i \in ListedIds}
       = {<<"lead", Some(1000)>>, <<"closed-won", Some(2000)>>, <<"closed-lost", Some(500)>>}
  /\ Cardinality(ListedIds) = 3
  /\ resp.body.stats.pipelineValue = 1000 /\ resp.body.stats.wonValue = 2000
  /\ resp.body.stats.winRate = 5000 /\ resp.body.stats.avgValue = <<3500, 3>>
  /\ resp.body.stats.conversionStats = [won |-> 1, lost |-> 1, active |-> 1]

\* a search answered 200 whose query was empty or missing
SearchedNothing ==
  /\ resp.op = "search" /\ resp.body.code = 200
  /\ resp.query = None \/ resp.query = Some(<<>>)

\* C14: a search with an empty or missing query answers a result set with
\* total 0 and no results.
C14_EmptyQueryTotalZero ==
  SearchedNothing =>
    /\ Has(resp.body, "total") /\ resp.body.total = 0
    /\ \A c \in Collections : Has(resp.body, c) /\ resp.body[c] = <<>>

\* the limit a search response was computed under: the requested one, 20
\* when none was requested, 50 at most
LimitInForce ==
  LET asked == IF resp.limit = None THEN 20 ELSE resp.limit[1]
  IN IF asked > 50 THEN 50 ELSE asked

\* the matches of the caller of the response in a collection
TableOf(c) ==
  CASE c = "contacts" -> contacts [] c = "opportunities" -> opps
    [] c = "communications" -> comms [] c = "documents" -> docs
CallerHits(c) ==
  {i \in Stored(TableOf(c)) :
     /\ TableOf(c)[i].userId = resp.caller
     /\ RowMatches(c, TableOf(c)[i], resp.query[1])}
Smaller(a, b) == IF a < b THEN a ELSE b

OrderedBy(c, row) == IF c \in {"contacts", "opportunities"} THEN row.updatedAt ELSE row.createdAt

C17_TotalIsReturned ==
  Searched =>
    resp.body.total = Len(resp.body.contacts) + Len(resp.body.opportunities)
                        + Len(resp.body.communications) + Len(resp.body.documents)

\* a response whose total is below the number of the caller's matches
C17_Witness ==
  /\ Searched
  /\ resp.body.total = 4
  /\ Cardinality(UNION {CallerHits(c) : c \in Collections}) = 8

(***************************************************************************)
(* The document specification: uploads, deletes, downloads, listings and   *)
(* searches by two users, with the file system or the store failing under  *)
(* an upload or a delete.                                                  *)
(***************************************************************************)
BigFile == [name |-> TitleAb, type |-> "", size |-> MaxFileSize + 1]
UploadForms ==
  {[file |-> SeedFile], [file |-> SeedFile, contactId |-> "", opportunityId |-> ""],
   [file |-> BigFile], Empty}

InitDocs == InitStore /\ now = 1

NextDocs ==
  \/ \E u \in Users, form \in UploadForms, fail \in Faults : UploadDocument(u, form, fail)
  \/ \E u \in Users, i \in DocIds, fail \in Faults : DeleteDocument(u, i, fail)
  \/ \E u \in Users, i \in DocIds, fail \in {"none", "file"} : DownloadDocument(u, i, fail)
  \/ \E u \in Users, q \in QueryFilters : ListDocuments(u, q, "", "")
  \/ \E u \in Users, type \in {None, Some("documents")} : Search(u, Some(QueryAb), type, None)

SpecDocs == InitDocs /\ [][NextDocs]_vars

\* the ids of the document results of a search response
FoundDocs(r) == {r.documents[k].id : k \in 1..Len(r.documents)}

\* C19: once a delete of a document by its owner has succeeded, a download
\* of its id by any user answers 404, the file is not in the storage, and
\* the document is in no listing and no search result.
C19_DeletedStaysGone ==
  \A i \in DocIds :
    docLog[i].phase = "deleted" =>
      /\ \A u \in Users, fail \in Faults :
           DownloadResponse(docs, files, u, i, fail).code = 404
      /\ docLog[i].path \notin files
      /\ \A u \in Users, q \in QueryFilters :
           \A r \in DocListResponses(docs, u, q, "", "", now) :
             i \notin Elems(r.documents)
      /\ \A u \in Users, type \in {None, Some("documents"), Some("all")} :
           \A r \in SearchResponses(contacts, opps, comms, docs, u, Some(QueryAb), type, None) :
             i \notin FoundDocs(r)

\* the owner deleted the first of two documents; the second is still listed,
\* found and stored with its file
C19_Witness ==
  /\ docLog["d1"].phase = "deleted" /\ docLog["d2"].phase = "stored"
  /\ docLog["d1"].path.dir = docs["d2"].userId
  /\ docs["d2"].uploadPath \in files
  /\ resp.op = "download" /\ resp.id = "d1" /\ resp.body.code = 404
  /\ \E r \in DocListResponses(docs, docs["d2"].userId, QueryAb, "", "", now) :
       Elems(r.documents) = {"d2"}

\* the uploads a user can send that pass the checks of the form
GoodForms == {form \in UploadForms : Has(form, "file") /\ form.file.size <= MaxFileSize}

\* C20: an upload writes the file before it creates the record and a delete
\* removes the file before it removes the record, and a failure of the later
\* step undoes nothing: a failed create leaves the file without a record, a
\* failed record delete leaves the record without its file, and a download
\* of a record without its file answers 404.
C20_FileBeforeRecord ==
  /\ FreeSlots # {} =>
       \A u \in Users, form \in GoodForms, fail \in Faults :
         LET id == NextDocId
             out == UploadOutcome(docs, files, u, form, id, now, fail)
         IN /\ out.table[id] # NoRow => UploadPath(u, StoredName(id)) \in out.files
            /\ fail = "file" => out = [code |-> 500, table |-> docs, files |-> files]
            /\ fail = "store" =>
                 out = [code |-> 500, table |-> docs,
                        files |-> files \cup {UploadPath(u, StoredName(id))}]
            /\ out.code = 200 <=> fail = "none"
  /\ \A i \in Stored(docs), fail \in Faults :
       LET u == docs[i].userId
           out == DocDeleteOutcome(docs, files, u, i, fail)
       IN /\ out.table[i] = NoRow => docs[i].uploadPath \notin out.files
          /\ (fail = "file" /\ docs[i].uploadPath \in files) =>
               out = [code |-> 500, table |-> docs, files |-> files]
          /\ fail = "store" =>
               /\ out = [code |-> 500, table |-> docs,
                         files |-> files \ {docs[i].uploadPath}]
               /\ DownloadResponse(out.table, out.files, u, i, "none").code = 404
  /\ \A i \in Stored(docs) :
       docs[i].uploadPath \notin files =>
         DownloadResponse(docs, files, docs[i].userId, i, "none").code = 404

\* a failed upload left a file that no record names, and a failed delete
\* left a record whose file is gone and whose download was answered 404
C20_Witness ==
  /\ docLog["d1"].phase = "failed" /\ docLog["d1"].path \in files /\ docs["d1"] = NoRow
  /\ docs["d2"] # NoRow /\ docs["d2"].uploadPath \notin files
  /\ resp.op = "download" /\ resp.id = "d2" /\ resp.caller = docs["d2"].userId
  /\ resp.body.code = 404

(***************************************************************************)
(* The session specification: every handler, called without a session,    *)
(* with bodies that pass and bodies that fail the schemas, for ids that    *)
(* name rows and ids that name none, on a store a signed-in user fills.    *)
(***************************************************************************)
AuthUsers == {"u1", Anonymous}

InitAuth ==
  /\ contacts = [i \in ContactIds |->
                   IF i = "c1" THEN NewContactRow("u1", [name |-> TitleAb], 0) ELSE NoRow]
  /\ opps = [i \in OppIds |->
               IF i = "o1"
               THEN NewOpportunityRow("u1", OpportunityParsed([title |-> TitleDeal]), 0)
               ELSE NoRow]
  /\ oppSeq = [u \in Users |-> IF u = "u1" THEN 1 ELSE 0]
  /\ comms = [i \in CommIds |->
                IF i = "m1"
                THEN NewCommunicationRow("u1", [type |-> "email", direction |-> "outbound"], 0)
                ELSE NoRow]
  /\ docs = [i \in DocIds |->
               IF i = "d1" THEN NewDocumentRow("u1", [file |-> SeedFile], StoredName(i), 0)
               ELSE NoRow]
  /\ files = {UploadPath("u1", StoredName("d1"))}
  /\ movers = Empty
  /\ profiles = [u \in Users |-> NoRow]
  /\ docLog = DocLogOf(docs)
  /\ resp = NoResp
  /\ now = 1

AuthOppIds == {"o1", GhostId}
AuthCreateBodies == {[title |-> TitleDeal], Empty}
AuthEditBodies == {[status |-> "qualified"], [status |-> BogusStatus]}
AuthMoveBodies ==
  {[opportunityId |-> i, newStatus |-> s, newOrder |-> 0] :
     i \in AuthOppIds, s \in {"proposal", BogusStatus}}
AuthContactIds == {"c1", GhostId}
AuthContactBodies == {[name |-> TitleCd], [name |-> <<>>]}
AuthCommIds == {"m1", GhostId}
AuthCommBodies == {[type |-> "phone", direction |-> "inbound"], [type |-> "fax"]}
AuthDocIds == {"d1", GhostId}
AuthForms == {[file |-> SeedFile], Empty}
AuthPreferences == {[theme |-> "dark"], [theme |-> "sepia"]}

\* the signed-in user fills the store; the caller without a session sends
\* every request there is
NextAuth ==
  \/ \E u \in AuthUsers, b \in AuthCreateBodies : CreateOpportunity(u, b)
  \/ \E u \in AuthUsers, b \in AuthMoveBodies : MoveOpportunity(u, b)
  \/ \E u \in AuthUsers, b \in AuthContactBodies : CreateContact(u, b)
  \/ \E u \in AuthUsers, b \in AuthCommBodies : CreateCommunication(u, b)
  \/ \E u \in AuthUsers, form \in AuthForms : UploadDocument(u, form, "none")
  \/ \E u \in AuthUsers, i \in AuthDocIds : DeleteDocument(u, i, "none")
  \/ \E u \in AuthUsers : GetPreferences(u)
  \/ \E u \in AuthUsers, b \in AuthPreferences : PutPreferences(u, b)
  \/ \E i \in AuthOppIds, b \in AuthEditBodies : UpdateOpportunity(Anonymous, i, b)
  \/ \E i \in AuthOppIds : DeleteOpportunity(Anonymous, i)
  \/ \E i \in AuthContactIds, b \in AuthContactBodies : UpdateContact(Anonymous, i, b)
  \/ \E i \in AuthContactIds : DeleteContact(Anonymous, i)
  \/ \E i \in AuthCommIds, b \in AuthCommBodies : UpdateCommunication(Anonymous, i, b)
  \/ \E i \in AuthCommIds : DeleteCommunication(Anonymous, i)
  \/ ListOpportunities(Anonymous, <<>>, "", "")
  \/ Search(Anonymous, Some(QueryAb), None, None)
  \/ ListContacts(Anonymous, <<>>, <<>>)
  \/ \E i \in AuthContactIds : GetContact(Anonymous, i)
  \/ ListCommunications(Anonymous, "", <<>>)
  \/ ListDocuments(Anonymous, <<>>, "", "")
  \/ \E i \in AuthDocIds : DownloadDocument(Anonymous, i, "none")

SpecAuth == InitAuth /\ [][NextAuth]_vars

\* the outcomes of every writing request a caller can send, each with the
\* table it was computed from
WritesOf(u) ==
  {<<opps, CreateOutcome(opps, contacts, u, b, GhostId, now)>> : b \in AuthCreateBodies}
  \cup {<<opps, EditOutcome(opps, contacts, u, i, b, touched, now)>> :
          i \in AuthOppIds, b \in AuthEditBodies, touched \in BOOLEAN}
  \cup {<<opps, DeleteOutcome(opps, u, i)>> : i \in AuthOppIds}
  \cup {<<opps, MoveOutcome(opps, u, b, now)>> : b \in AuthMoveBodies}
  \cup {<<contacts, ContactCreateOutcome(contacts, u, b, GhostId, now)>> :
          b \in AuthContactBodies}
  \cup {<<contacts, ContactEditOutcome(contacts, u, i, b, touched, now)>> :
          i \in AuthContactIds, b \in AuthContactBodies, touched \in BOOLEAN}
  \cup {<<contacts, DeleteOutcome(contacts, u, i)>> : i \in AuthContactIds}
  \cup {<<comms, CommCreateOutcome(comms, contacts, opps, u, b, GhostId, now)>> :
          b \in AuthCommBodies}
  \cup {<<comms, CommEditOutcome(comms, contacts, opps, u, i, b)>> :
          i \in AuthCommIds, b \in AuthCommBodies}
  \cup {<<comms, DeleteOutcome(comms, u, i)>> : i \in AuthCommIds}
  \cup {<<profiles, PreferencesGetOutcome(profiles, u)>>}
  \cup {<<profiles, PreferencesPutOutcome(profiles, u, b, now)>> : b \in AuthPreferences}

\* the outcomes of every request on the storage a caller can send
FileWritesOf(u) ==
  {UploadOutcome(docs, files, u, form, GhostId, now, fail) :
     form \in AuthForms, fail \in Faults}
  \cup {DocDeleteOutcome(docs, files, u, i, fail) : i \in AuthDocIds, fail \in Faults}

\* the responses to every reading request a caller can send
ReadsOf(u) ==
  ListResponses(opps, u, <<>>, "", "")
  \cup SearchResponses(contacts, opps, comms, docs, u, Some(QueryAb), None, None)
  \cup SearchResponses(contacts, opps, comms, docs, u, None, None, None)
  \cup ContactListResponses(contacts, opps, comms, u, <<>>, <<>>)
  \cup UNION {ContactGetResponses(contacts, opps, comms, u, i) : i \in AuthContactIds}
  \cup CommListResponses(comms, u, "", "", "", <<>>, now)
  \cup DocListResponses(docs, u, <<>>, "", "", now)
  \cup {DownloadResponse(docs, files, u, i, fail) : i \in AuthDocIds, fail \in Faults}

\* C18: a request without a session is answered 401 by every handler,
\* whatever its body and its id (401 goes before 400 and 404), the answer
\* carries nothing of the store, and the store and the storage stay as
\* they were.
C18_AnonymousUnauthorized ==
  /\ \A w \in WritesOf(Anonymous) : w[2].code = 401 /\ w[2].table = w[1]
  /\ \A w \in FileWritesOf(Anonymous) :
       w = [code |-> 401, table |-> docs, files |-> files]
  /\ ReadsOf(Anonymous) = {[code |-> 401]}

\* the store holds rows of every kind and a profile, and the last request,
\* a download of a stored document without a session, was answered 401
C18_Witness ==
  /\ resp.op = "download" /\ resp.caller = Anonymous /\ resp.body = [code |-> 401]
  /\ FindFirstOwned(docs, resp.id, "u1") # NoRow /\ docs[resp.id].uploadPath \in files
  /\ Stored(opps) # {} /\ Stored(contacts) = ContactIds /\ Stored(comms) = CommIds
  /\ profiles["u1"] # NoRow /\ profiles["u1"].theme = "dark"

(***************************************************************************)
(* The preferences specification: reads and updates of the profiles of     *)
(* two users, one request after the other, while the clock runs.           *)
(***************************************************************************)
Bag == [compact |-> TRUE]
PreferenceBodies ==
  {Empty, [theme |-> "dark"], [timezone |-> "CET", preferences |-> Bag], [theme |-> "sepia"]}

InitPrefs == InitStore /\ now = 1

NextPrefs ==
  \/ \E u \in Users : GetPreferences(u)
  \/ \E u \in Users, b \in PreferenceBodies : PutPreferences(u, b)
  \/ Tick

SpecPrefs == InitPrefs /\ [][NextPrefs]_vars

\* C21: a read by a user without a profile creates the profile with theme
\* 'system', timezone 'UTC' and an empty bag and returns these; a read by a
\* user with a profile returns the stored one and writes nothing; no read and
\* no update touches another user's profile, and a user who was answered 200
\* has a profile, which is the user's own.
C21_ProfileOnFirstRead ==
  /\ \A u \in Users :
       LET out == PreferencesGetOutcome(profiles, u) IN
         /\ out.code = 200
         /\ \A v \in Users \ {u} : out.table[v] = profiles[v]
         /\ profiles[u] = NoRow =>
              /\ out.table[u] = [userId |-> u, theme |-> "system", timezone |-> "UTC",
                                 preferences |-> Empty, updatedAt |-> None]
              /\ out.body = [theme |-> "system", timezone |-> "UTC", preferences |-> Empty]
         /\ profiles[u] # NoRow =>
              /\ out.table = profiles
              /\ out.body = PreferencesBody(profiles[u])
         /\ PreferencesGetOutcome(out.table, u) = out
  /\ \A u \in Users, b \in PreferenceBodies :
       LET out == PreferencesPutOutcome(profiles, u, b, now) IN
         /\ \A v \in Users \ {u} : out.table[v] = profiles[v]
         /\ out.code = 200 => out.table[u] # NoRow /\ out.table[u].userId = u
         /\ out.code # 200 => out.table = profiles
  /\ resp # NoResp /\ resp.body.code = 200 =>
       /\ profiles[resp.caller] # NoRow
       /\ profiles[resp.caller].userId = resp.caller
       /\ resp.method = "GET" =>
            resp.body = [code |-> 200] @@ PreferencesBody(profiles[resp.caller])

\* u1 updated the profile and then read it: the read returned the stored
\* theme and not the default, while u2 still has no profile
C21_Witness ==
  /\ resp # NoResp /\ resp.method = "GET" /\ resp.caller = "u1"
  /\ resp.body.theme = "dark" /\ resp.body.timezone = "CET"
  /\ profiles["u1"].updatedAt # None
  /\ profiles["u2"] = NoRow

(***************************************************************************)
(* CommunicationList: the status badge of a listed communication.          *)
(***************************************************************************)
\* a stored date as the listing's JSON carries it: null, or the ISO string
JsonDate(x) == IF IsSome(x) THEN Some(DateStr(Val(x))) ELSE None

\* the communication as the component receives it
CommJson(row) ==
  [type |-> row.type, subject |-> row.subject,
   scheduledDate |-> JsonDate(row.scheduledDate),
   completedDate |-> JsonDate(row.completedDate)]

NoBadge == "none"

\* Variant: the scheduled date looked at before the completed date.
StatusBadgeScheduledFirst(c, t) ==
  IF IsSome(c.scheduledDate)
  THEN (IF NewDate(Val(c.scheduledDate)) > t THEN "Scheduled" ELSE "Overdue")
  ELSE IF IsSome(c.completedDate) THEN "Completed"
  ELSE NoBadge

\* getStatusBadge at the time t of the rendering
StatusBadge(c, t) ==
  IF IsSome(c.completedDate) THEN "Completed"
  ELSE IF IsSome(c.scheduledDate)
  THEN (IF NewDate(Val(c.scheduledDate)) > t THEN "Scheduled" ELSE "Overdue")
  ELSE NoBadge

\* the badges the list shows now
Badges == [i \in Stored(comms) |-> StatusBadge(CommJson(comms[i]), now)]

(***************************************************************************)
(* The communications specification: creates and edits that set and clear *)
(* the two dates, listings, and the clock.                                 *)
(***************************************************************************)
CallBody == [type |-> "phone", direction |-> "outbound"]
DatedCreateBodies ==
  {CallBody, CallBody @@ [scheduledDate |-> DateStr(1)],
   CallBody @@ [scheduledDate |-> DateStr(2), completedDate |-> DateStr(0)],
   CallBody @@ [subject |-> TitleAb, completedDate |-> DateStr(1)],
   CallBody @@ [scheduledDate |-> NotADate]}
DatedEditBodies ==
  {[completedDate |-> Some(DateStr(1))], [completedDate |-> None],
   [scheduledDate |-> Some(DateStr(2))], [scheduledDate |-> None]}

InitComm == InitStore /\ now = 0

NextComm ==
  \/ \E b \in DatedCreateBodies : CreateCommunication("u1", b)
  \/ \E i \in CommIds, b \in DatedEditBodies : UpdateCommunication("u1", i, b)
  \/ ListCommunications("u1", "", <<>>)
  \/ Tick

SpecComm == InitComm /\ [][NextComm]_vars

\* C22: the badge of a communication is "Completed" when completedDate is
\* set, whatever scheduledDate is; otherwise "Scheduled" when scheduledDate
\* is later than now, "Overdue" when it is set and not later than now, and
\* none when neither date is set.  Two communications with the same two dates
\* have the same badge.
C22_StatusBadge ==
  /\ \A i \in Stored(comms) :
       LET row == comms[i] IN
         /\ IsSome(row.completedDate) => Badges[i] = "Completed"
         /\ (row.completedDate = None /\ IsSome(row.scheduledDate)
               /\ Val(row.scheduledDate) > now) => Badges[i] = "Scheduled"
         /\ (row.completedDate = None /\ IsSome(row.scheduledDate)
               /\ Val(row.scheduledDate) <= now) => Badges[i] = "Overdue"
         /\ (row.completedDate = None /\ row.scheduledDate = None) => Badges[i] = NoBadge
  /\ \A i, j \in Stored(comms) :
       (comms[i].completedDate = comms[j].completedDate
          /\ comms[i].scheduledDate = comms[j].scheduledDate) => Badges[i] = Badges[j]

\* a communication completed before its scheduled time, which is still to
\* come, next to one whose scheduled time is now
C22_Witness ==
  /\ Stored(comms) = CommIds
  /\ \E i, j \in CommIds :
       /\ IsSome(comms[i].completedDate) /\ IsSome(comms[i].scheduledDate)
       /\ Val(comms[i].scheduledDate) > now /\ Badges[i] = "Completed"
       /\ comms[j].completedDate = None /\ comms[j].scheduledDate = Some(now)
       /\ Badges[j] = "Overdue"
  /\ resp # NoResp /\ resp.op = "communications" /\ Len(resp.body.communications) = 2

(***************************************************************************)
(* include: { contact: { select } } and include: { opportunity: { select } }*)
(* of the listings and the search: the row a reference names, whoever owns *)
(* it.                                                                     *)
(***************************************************************************)
IncludedContact(cts, row) ==
  IF IsSome(row.contactId) /\ Val(row.contactId) \in Stored(cts)
  THEN LET c == cts[Val(row.contactId)]
       IN Some([id |-> Val(row.contactId), name |-> c.name, email |-> c.email,
                company |-> c.company])
  ELSE None

IncludedOpportunity(ops, row) ==
  IF IsSome(row.opportunityId) /\ Val(row.opportunityId) \in Stored(ops)
  THEN Some([id |-> Val(row.opportunityId), title |-> ops[Val(row.opportunityId)].title])
  ELSE None

\* the contacts and the opportunities that the listings and the search embed
\* in their responses to u: those of u's opportunities, communications and
\* documents
EmbeddedContacts(u) ==
  UNION {{Val(IncludedContact(contacts, t[i])) :
            i \in {j \in Stored(t) :
                     t[j].userId = u /\ IsSome(IncludedContact(contacts, t[j]))}} :
           t \in {opps, comms, docs}}
EmbeddedOpportunities(u) ==
  UNION {{Val(IncludedOpportunity(opps, t[i])) :
            i \in {j \in Stored(t) :
                     t[j].userId = u /\ IsSome(IncludedOpportunity(opps, t[j]))}} :
           t \in {comms, docs}}

(***************************************************************************)
(* The references specification: two users with a contact and an          *)
(* opportunity each; creates, edits and uploads that name a contact or an  *)
(* opportunity by its id.                                                  *)
(***************************************************************************)
InitRefs ==
  /\ contacts = [i \in ContactIds |->
                   NewContactRow(IF i = "c1" THEN "u1" ELSE "u2",
                                 [name |-> IF i = "c1" THEN TitleAb ELSE TitleCd], 0)]
  /\ opps = [i \in OppIds |->
               IF i = "o2" THEN NoRow
               ELSE NewOpportunityRow(IF i = "o1" THEN "u1" ELSE "u2",
                                      OpportunityParsed([title |-> TitleDeal]), 0)]
  /\ oppSeq = [u \in Users |-> 1]
  /\ comms = [i \in CommIds |-> NoRow]
  /\ docs = [i \in DocIds |-> NoRow]
  /\ files = {}
  /\ movers = Empty
  /\ profiles = [u \in Users |-> NoRow]
  /\ docLog = DocLogOf(docs)
  /\ resp = NoResp
  /\ now = 1

RefOppIds == {"o1", "o3"}

NextRefs ==
  \/ \E u \in Users, c \in ContactIds :
       CreateOpportunity(u, [title |-> TitleDeal, contactId |-> c])
  \/ \E u \in Users, i \in RefOppIds, c \in ContactIds :
       UpdateOpportunity(u, i, [contactId |-> c])
  \/ CreateCommunication("u1", [type |-> "phone", direction |-> "outbound",
                                contactId |-> "c2"])
  \/ CreateCommunication("u1", [type |-> "email", direction |-> "inbound",
                                opportunityId |-> "o3"])
  \/ UploadDocument("u1", [file |-> SeedFile, contactId |-> "c2"], "none")
  \/ UploadDocument("u1", [file |-> SeedFile, opportunityId |-> "o3"], "none")
  \/ \E u \in Users : ListOpportunities(u, <<>>, "", "")

SpecRefs == InitRefs /\ [][NextRefs]_vars

\* C23: the contact and the opportunity that an opportunity, a
\* communication or a document names belong to the owner of the naming row,
\* and so the responses to a user embed the name, email and company of the
\* user's own contacts and the titles of the user's own opportunities only.
C23_ReferencesStayWithOwner ==
  /\ \A t \in {opps, comms, docs} : \A i \in Stored(t) :
       (IsSome(t[i].contactId) /\ Val(t[i].contactId) \in Stored(contacts)) =>
         contacts[Val(t[i].contactId)].userId = t[i].userId
  /\ \A t \in {comms, docs} : \A i \in Stored(t) :
       (IsSome(t[i].opportunityId) /\ Val(t[i].opportunityId) \in Stored(opps)) =>
         opps[Val(t[i].opportunityId)].userId = t[i].userId
  /\ \A u \in Users :
       /\ \A c \in EmbeddedContacts(u) : contacts[c.id].userId = u
       /\ \A o \in EmbeddedOpportunities(u) : opps[o.id].userId = u

(***************************************************************************)
(* KanbanBoard.handleDragEnd and the page's handleOpportunityMove: a card  *)
(* of the board that is shown is dropped on a column.                      *)
(***************************************************************************)
\* the columns of the shown board that hold the card
ShownIn(board, card) == {st \in DOMAIN board : card \in Elems(board[st])}

\* the Move requests a drop sends: none when the card is not on the board
\* or is dropped on its own column, else one, whose order is the number of
\* cards shown in the target column
DragRequests(board, card, target) ==
  IF ShownIn(board, card) = {} \/ target \in ShownIn(board, card) THEN {}
  ELSE {[opportunityId |-> card, newStatus |-> target, newOrder |-> Len(board[target])]}

\* the page shows the unfiltered listing it fetched last
BoardShown(u) ==
  /\ resp # NoResp /\ resp.op = "list" /\ resp.caller = u /\ resp.body.code = 200
  /\ resp.query = <<>> /\ resp.status = "" /\ resp.contactId = ""

\* the drop: the request, and on its success the listing fetched again
DragEnd(u, card, target) ==
  /\ BoardShown(u)
  /\ LET reqs == DragRequests(resp.body.kanban, card, target) IN
       IF reqs = {} THEN UNCHANGED <<opps, resp>>
       ELSE \E b \in reqs :
              LET out == MoveOutcome(opps, u, b, now) IN
                /\ opps' = out.table
                /\ IF out.code = 200
                   THEN \E r \in ListResponses(out.table, u, <<>>, "", "") :
                          resp' = [op |-> "list", caller |-> u, query |-> <<>>,
                                   status |-> "", contactId |-> "", body |-> r, drag |-> b]
                   ELSE UNCHANGED resp
  /\ UNCHANGED <<oppSeq, contacts, comms, docs, files, now, movers, profiles, docLog>>

(***************************************************************************)
(* The drag specification: one user's two cards created, dragged between   *)
(* two columns and deleted, the board fetched, while the clock runs.       *)
(***************************************************************************)
DragCards == {"o1", "o2"}
DragTargets == {"lead", "qualified"}

InitDrag == InitStore /\ now = 0

NextDrag ==
  \/ CreateOpportunity("u1", [title |-> TitleDeal])
  \/ ListOpportunities("u1", <<>>, "", "")
  \/ \E card \in DragCards, target \in DragTargets : DragEnd("u1", card, target)
  \/ \E i \in DragCards : DeleteOpportunity("u1", i)
  \/ Tick

SpecDrag == InitDrag /\ [][NextDrag]_vars

\* C24: in the listing fetched after a drop on another column the dragged
\* card is the last card of the target column, and a drop of a shown card on
\* its own column sends no request.
C24_DraggedCardIsLast ==
  /\ (resp # NoResp /\ Has(resp, "drag")) =>
       LET column == resp.body.kanban[resp.drag.newStatus]
       IN Len(column) >= 1 /\ column[Len(column)] = resp.drag.opportunityId
  /\ BoardShown("u1") =>
       \A card \in DragCards : \A st \in ShownIn(resp.body.kanban, card) :
         DragRequests(resp.body.kanban, card, st) = {}

\* C25: an opportunity has a won-date only while its status is closed-won
\* and a lost-reason only while its status is closed-lost, whatever Moves and
\* edits it went through.
C25_ClosedFieldsOnlyWhileClosed ==
  \A i \in Stored(opps) :
    /\ IsSome(opps[i].wonDate) => opps[i].status = "closed-won"
    /\ IsSome(opps[i].lostReason) => opps[i].status = "closed-lost"

\* the bodies of the edits whose frame is looked at
FrameBodies ==
  EditBodies \cup {[title |-> TitleAb], [value |-> 5, description |-> TitleCd],
                   [currency |-> "EUR"], [contactId |-> "c1"], [closeDate |-> DateStr(1)]}

PrefFind(p, u) ==
  /\ movers[p] = IdleMover
  /\ movers' = [movers EXCEPT ![p] =
                  IF profiles[u] # NoRow
                  THEN [pc |-> "done", kind |-> "GET", user |-> u, code |-> 200,
                        body |-> PreferencesBody(profiles[u])]
                  ELSE [pc |-> "creating", kind |-> "GET", user |-> u]]
  /\ UNCHANGED <<opps, oppSeq, contacts, comms, docs, files, now, resp, profiles, docLog>>

\* create: userId is unique, so the create throws when a profile of the
\* user is there by now, and the handler answers 500
PrefCreate(p) ==
  /\ movers[p].pc = "creating"
  /\ LET u == movers[p].user IN
       IF profiles[u] # NoRow
       THEN /\ movers' = [movers EXCEPT ![p] =
                            [pc |-> "done", kind |-> "GET", user |-> u, code |-> 500,
                             body |-> Empty]]
            /\ UNCHANGED profiles
       ELSE /\ profiles' = [profiles EXCEPT ![u] = DefaultProfile(u)]
            /\ movers' = [movers EXCEPT ![p] =
                            [pc |-> "done", kind |-> "GET", user |-> u, code |-> 200,
                             body |-> PreferencesBody(DefaultProfile(u))]]
  /\ UNCHANGED <<opps, oppSeq, contacts, comms, docs, files, now, resp, docLog>>

\* the parse and the upsert, which the store runs as one statement
PrefUpsert(p, u, b) ==
  /\ movers[p] = IdleMover
  /\ LET out == PreferencesPutOutcome(profiles, u, b, now) IN
       /\ profiles' = out.table
       /\ movers' = [movers EXCEPT ![p] =
                       [pc |-> "done", kind |-> "PUT", user |-> u, code |-> out.code,
                        body |-> out.body, sent |-> b]]
  /\ UNCHANGED <<opps, oppSeq, contacts, comms, docs, files, now, resp, docLog>>

(***************************************************************************)
(* The concurrent preferences specification: two requests, each a read or  *)
(* an update by one of two users who have no profile yet.                  *)
(***************************************************************************)
RaceUpdates == {[theme |-> "dark"], [timezone |-> "CET", preferences |-> Bag]}

InitPrefRace ==
  /\ opps = [i \in OppIds |-> NoRow]
  /\ oppSeq = [u \in Users |-> 0]
  /\ contacts = [i \in ContactIds |-> NoRow]
  /\ comms = [i \in CommIds |-> NoRow]
  /\ docs = [i \in DocIds |-> NoRow]
  /\ files = {}
  /\ movers = [p \in Procs |-> IdleMover]
  /\ profiles = [u \in Users |-> NoRow]
  /\ docLog = DocLogOf(docs)
  /\ resp = NoResp
  /\ now = 1

NextPrefRace ==
  \/ \E p \in Procs, u \in Users : PrefFind(p, u)
  \/ \E p \in Procs : PrefCreate(p)
  \/ \E p \in Procs, u \in Users, b \in RaceUpdates : PrefUpsert(p, u, b)
  \/ Tick

SpecPrefRace == InitPrefRace /\ [][NextPrefRace]_vars

\* C27: when the two requests of one user are done, both were answered 200,
\* the user has a profile, and the profile has the values that an update
\* among them sent.
C27_ConcurrentFirstRequests ==
  (\A p \in Procs : movers[p].pc = "done" /\ movers[p].user = "u1") =>
    /\ \A p \in Procs : movers[p].code = 200
    /\ profiles["u1"] # NoRow
    /\ \A p \in Procs :
         (movers[p].kind = "PUT"
            /\ \A q \in Procs \ {p} : movers[q].kind = "GET") =>
           \A k \in DOMAIN movers[p].sent : profiles["u1"][k] = movers[p].sent[k]


(***************************************************************************)
(* The dashboard page: getDashboardStats counts the user's contacts and    *)
(* opportunities and sums the values of the opportunities in its pipeline  *)
(* stages. The count of upcoming activities reads a table no handler of    *)
(* the application writes and is left out.                                 *)
(***************************************************************************)
\* status: { in: ['prospecting', 'qualification', 'proposal', 'negotiation'] }
DashboardStages == {"prospecting", "qualification", "proposal", "negotiation"}

\* _sum: { value: true } over a set of rows, a row without a value adding nothing
RECURSIVE AggregateSum(_, _)
AggregateSum(store, ids) ==
  IF ids = {} THEN 0
  ELSE LET i == CHOOSE j \in ids : TRUE
       IN (IF IsSome(store[i].value) THEN Val(store[i].value) ELSE 0)
          + AggregateSum(store, ids \ {i})

getDashboardStats(store, cts, u) ==
  LET own == {i \in Stored(store) : store[i].userId = u}
      staged == {i \in own : store[i].status \in DashboardStages}
  IN [contactsCount |-> Cardinality({i \in Stored(cts) : cts[i].userId = u}),
      opportunitiesCount |-> Cardinality(own),
      totalPipelineValue |-> AggregateSum(store, staged)]

\* the page renders nothing without a user
DashboardPage(u) ==
  /\ resp' = [op |-> "dashboard", caller |-> u,
              body |-> IF Authenticated(u)
                       THEN [rendered |-> TRUE, stats |-> getDashboardStats(opps, contacts, u)]
                       ELSE [rendered |-> FALSE]]
  /\ UNCHANGED <<opps, oppSeq, contacts, comms, docs, files, now, movers, profiles, docLog>>

\* a store of up to three opportunities in open and closed stages, with and
\* without a value, of one user or two
DashSeeds ==
  [o1 : SeedRows("u1", {[title |-> TitleAb, status |-> st] @@ v :
                          st \in {"lead", "proposal", "closed-won"},
                          v \in {Empty, [value |-> 1000]}}, 0),
   o2 : SeedRows("u1", {[title |-> TitleAb, status |-> st, value |-> 2000] :
                          st \in {"qualified", "proposal", "negotiating"}}, 0) \cup {NoRow},
   o3 : SeedRows("u2", {[title |-> TitleCd, status |-> "proposal", value |-> 500]}, 0)
          \cup {NoRow}]

InitDash ==
  /\ opps \in DashSeeds
  /\ oppSeq = [u \in Users |-> Cardinality({i \in Stored(opps) : opps[i].userId = u})]
  /\ contacts = [i \in ContactIds |-> NoRow]
  /\ comms = [i \in CommIds |-> NoRow]
  /\ docs = [i \in DocIds |-> NoRow]
  /\ files = {}
  /\ movers = Empty
  /\ profiles = [u \in Users |-> NoRow]
  /\ docLog = DocLogOf(docs)
  /\ resp = NoResp
  /\ now = 1

NextDash ==
  \/ \E u \in Users : ListOpportunities(u, <<>>, "", "")
  \/ \E u \in Callers : DashboardPage(u)

SpecDash == InitDash /\ [][NextDash]_vars

\* C28: the total pipeline value of the dashboard equals the pipelineValue of
\* the caller's unfiltered listing, which is the sum of the values of the
\* caller's opportunities in the stages lead, qualified, proposal and
\* negotiating.
C28_DashboardPipeline ==
  (resp.op = "dashboard" /\ resp.body.rendered) =>
    LET u == resp.caller
        open == {i \in Stored(opps) : opps[i].userId = u /\ opps[i].status \in OpenStages}
    IN /\ resp.body.stats.totalPipelineValue = AggregateSum(opps, open)
       /\ \A r \in ListResponses(opps, u, <<>>, "", "") :
            resp.body.stats.totalPipelineValue = r.stats.pipelineValue


(***************************************************************************)
(* The two search boxes. GlobalSearch keeps the typed query, a timer that  *)
(* every keystroke restarts, and the results of the last response it       *)
(* received; the opportunities page keeps searchQuery and the last listing *)
(* it received, and fetches on every change of searchQuery. The requests   *)
(* in flight are kept with the component that sent them; the store does    *)
(* not change while they are, so a response is computed when it arrives.   *)
(***************************************************************************)
MaxTyped == 2       \* changes of the query per search box
QueryCd == <<"c", "d">>
TypedQueries == {<<>>, QueryAb, QueryCd}

\* a request in flight: the query it carries, numbered by the change that sent it
Flights == [n : 0..MaxTyped, query : TypedQueries]

\* !searchQuery.trim()
Blank(q) == \A k \in 1..Len(q) : q[k] = " "

\* the component after mounting: the timer of the first effect is running
GlobalSearchMounted ==
  [query |-> <<>>, timer |-> Some(<<>>), flights |-> {}, typed |-> 0, results |-> None]

\* the page after mounting: the fetch of the first effect is in flight
OpportunitiesPageMounted ==
  [searchQuery |-> <<>>, flights |-> {[n |-> 0, query |-> <<>>]}, typed |-> 0,
   opportunities |-> None]

\* setQuery(e.target.value); the effect clears the timer and sets a new one
TypeGlobal(q) ==
  LET g == movers.global
  IN /\ g.typed < MaxTyped
     /\ q # g.query
     /\ movers' = [movers EXCEPT !.global =
                     [g EXCEPT !.query = q, !.timer = Some(q), !.typed = g.typed + 1]]
     /\ UNCHANGED <<opps, oppSeq, contacts, comms, docs, files, now, resp, profiles, docLog>>

\* the timer fires: search(query) clears the results of a blank query and
\* sends a request for any other
SearchTimer ==
  LET g == movers.global
  IN /\ IsSome(g.timer)
     /\ movers' = [movers EXCEPT !.global =
                     IF Blank(Val(g.timer))
                     THEN [g EXCEPT !.timer = None, !.results = None]
                     ELSE [g EXCEPT !.timer = None,
                                    !.flights = g.flights \cup {[n |-> g.typed, query |-> Val(g.timer)]}]]
     /\ UNCHANGED <<opps, oppSeq, contacts, comms, docs, files, now, resp, profiles, docLog>>

\* a response arrives: setResults(data) when response.ok
SearchArrives(u, f) ==
  LET g == movers.global
  IN /\ f \in g.flights
     /\ \E r \in SearchResponses(contacts, opps, comms, docs, u, Some(f.query), Some("all"), None) :
          movers' = [movers EXCEPT !.global =
                       [g EXCEPT !.flights = g.flights \ {f},
                                 !.results = IF r.code = 200 THEN Some(r) ELSE g.results]]
     /\ UNCHANGED <<opps, oppSeq, contacts, comms, docs, files, now, resp, profiles, docLog>>

\* setSearchQuery(e.target.value); the effect calls fetchOpportunities
TypePage(q) ==
  LET pg == movers.page
  IN /\ pg.typed < MaxTyped
     /\ q # pg.searchQuery
     /\ movers' = [movers EXCEPT !.page =
                     [pg EXCEPT !.searchQuery = q, !.typed = pg.typed + 1,
                                !.flights = pg.flights \cup {[n |-> pg.typed + 1, query |-> q]}]]
     /\ UNCHANGED <<opps, oppSeq, contacts, comms, docs, files, now, resp, profiles, docLog>>

\* a response arrives: setOpportunities(data) when response.ok
ListingArrives(u, f) ==
  LET pg == movers.page
  IN /\ f \in pg.flights
     /\ \E r \in ListResponses(opps, u, f.query, "", "") :
          movers' = [movers EXCEPT !.page =
                       [pg EXCEPT !.flights = pg.flights \ {f},
                                  !.opportunities = IF r.code = 200 THEN Some(r)
                                                    ELSE pg.opportunities]]
     /\ UNCHANGED <<opps, oppSeq, contacts, comms, docs, files, now, resp, profiles, docLog>>

\* u1 owns an opportunity and a contact that match "ab" and an opportunity
\* that matches "cd"
InitBoxes ==
  /\ opps = [i \in OppIds |->
               IF i = "o1" THEN NewOpportunityRow("u1", OpportunityParsed([title |-> TitleAb]), 0)
               ELSE IF i = "o2"
               THEN NewOpportunityRow("u1", OpportunityParsed([title |-> TitleCd]), 0)
               ELSE NoRow]
  /\ oppSeq = [u \in Users |-> IF u = "u1" THEN 2 ELSE 0]
  /\ contacts = [i \in ContactIds |->
                   IF i = "c1" THEN NewContactRow("u1", [name |-> TitleAb], 0) ELSE NoRow]
  /\ comms = [i \in CommIds |-> NoRow]
  /\ docs = [i \in DocIds |-> NoRow]
  /\ files = {}
  /\ movers = [global |-> GlobalSearchMounted, page |-> OpportunitiesPageMounted]
  /\ profiles = [u \in Users |-> NoRow]
  /\ docLog = DocLogOf(docs)
  /\ resp = NoResp
  /\ now = 1

NextBoxes ==
  \/ \E q \in TypedQueries : TypeGlobal(q)
  \/ SearchTimer
  \/ \E f \in Flights : SearchArrives("u1", f)
  \/ \E q \in TypedQueries : TypePage(q)
  \/ \E f \in Flights : ListingArrives("u1", f)

SpecBoxes == InitBoxes /\ [][NextBoxes]_vars

\* C29: once no timer is running and no request is in flight, each search box
\* shows the results of its last typed query: the page a listing for
\* searchQuery, the global box nothing for a blank query and otherwise a
\* search response for the query.
C29_LastQueryShown ==
  /\ movers.page.flights = {} =>
       /\ IsSome(movers.page.opportunities)
       /\ Val(movers.page.opportunities)
            \in ListResponses(opps, "u1", movers.page.searchQuery, "", "")
  /\ (movers.global.timer = None /\ movers.global.flights = {}) =>
       IF Blank(movers.global.query) THEN movers.global.results = None
       ELSE /\ IsSome(movers.global.results)
            /\ Val(movers.global.results)
                 \in SearchResponses(contacts, opps, comms, docs, "u1",
                                     Some(movers.global.query), Some("all"), None)

(***************************************************************************)
(* The DocumentUpload component. Its state is the list of selected files   *)
(* with their marks, the uploading flag, the requests in flight, the       *)
(* Promise.all of every upload-all and the timers that clear the uploaded  *)
(* files. List positions count from 1 here and from 0 in the component.    *)
(* Every entry also records, in by, the files whose requests wrote a mark  *)
(* on it; the component keeps no such record.                              *)
(***************************************************************************)
MaxBatches == 2     \* clicks on the upload button
HalfLoaded == 50    \* the progress a progress event reports
Selectable == {TitleAb, TitleCd}

\* onDrop: a selected file enters the list unmarked
NewFileEntry(name) ==
  [file |-> name, progress |-> 0, error |-> None, success |-> FALSE, by |-> {}]

UploadIdle ==
  [files |-> <<>>, uploading |-> FALSE, flights |-> {}, batches |-> <<>>, timers |-> {},
   dropped |-> {}]

\* prev.filter((_, i) => i !== index)
RemoveAt(seq, k) == SubSeq(seq, 1, k - 1) \o SubSeq(seq, k + 1, Len(seq))

\* prev.map((f, i) => i === index ? {...f, ...mark} : f), for the request fl
MarkAt(seq, fl, mark) ==
  [k \in 1..Len(seq) |->
     IF k = fl.index THEN mark @@ [by |-> seq[k].by \cup {fl.file}] @@ seq[k] ELSE seq[k]]

\* the text of a file stands for its bytes
FormOf(name) == [file |-> [name |-> name, type |-> "text/plain", size |-> Len(name)]]

\* the promise of request fl settles: Promise.all resolves with the last
\* promise that resolves and rejects with the first that rejects; resolved,
\* uploadAllFiles sets the timer; either way it ends with setUploading(false)
Settled(c, fl, ok) ==
  LET b == c.batches[fl.batch]
      left == IF ok THEN b.pending - 1 ELSE b.pending
      ends == ~b.settled /\ (~ok \/ left = 0)
  IN [c EXCEPT !.flights = c.flights \ {fl},
               !.batches[fl.batch] = [pending |-> left, settled |-> b.settled \/ ends],
               !.timers = IF ends /\ ok THEN c.timers \cup {fl.batch} ELSE c.timers,
               !.uploading = IF ends THEN FALSE ELSE c.uploading]

DropFile(name) ==
  /\ name \notin movers.dropped
  /\ movers' = [movers EXCEPT !.files = Append(movers.files, NewFileEntry(name)),
                              !.dropped = movers.dropped \cup {name}]
  /\ UNCHANGED <<opps, oppSeq, contacts, comms, docs, files, now, resp, profiles, docLog>>

\* the button is disabled while uploading
removeFile(index) ==
  /\ ~movers.uploading
  /\ index \in 1..Len(movers.files)
  /\ movers' = [movers EXCEPT !.files = RemoveAt(movers.files, index)]
  /\ UNCHANGED <<opps, oppSeq, contacts, comms, docs, files, now, resp, profiles, docLog>>

\* the button is disabled while uploading and for an empty list; every file
\* of the list is sent with its position
uploadAllFiles ==
  /\ ~movers.uploading
  /\ movers.files # <<>>
  /\ Len(movers.batches) < MaxBatches
  /\ LET n == Len(movers.batches) + 1
     IN movers' = [movers EXCEPT
                     !.uploading = TRUE,
                     !.batches = Append(movers.batches,
                                        [pending |-> Len(movers.files), settled |-> FALSE]),
                     !.flights = movers.flights \cup
                                   {[batch |-> n, index |-> k, file |-> movers.files[k].file] :
                                      k \in 1..Len(movers.files)}]
  /\ UNCHANGED <<opps, oppSeq, contacts, comms, docs, files, now, resp, profiles, docLog>>

\* xhr.upload 'progress'
UploadProgress(fl) ==
  /\ fl \in movers.flights
  /\ movers' = [movers EXCEPT !.files = MarkAt(movers.files, fl, [progress |-> HalfLoaded])]
  /\ UNCHANGED <<opps, oppSeq, contacts, comms, docs, files, now, resp, profiles, docLog>>

\* the server handles the request and xhr 'load' fires with its status
UploadLoad(u, fl, fail) ==
  /\ fl \in movers.flights
  /\ FreeSlots # {}
  /\ LET id == NextDocId
         out == UploadOutcome(docs, files, u, FormOf(fl.file), id, now, fail)
         ok == out.code = 200
         mark == IF ok THEN [progress |-> 100, success |-> TRUE]
                 ELSE [error |-> Some("Upload failed")]
     IN /\ docs' = out.table
        /\ files' = out.files
        /\ docLog' = IF ok
                     THEN [docLog EXCEPT ![id] = [phase |-> "stored", path |-> UploadPath(u, StoredName(id))]]
                     ELSE IF out.files # files
                     THEN [docLog EXCEPT ![id] = [phase |-> "failed", path |-> UploadPath(u, StoredName(id))]]
                     ELSE docLog
        /\ movers' = Settled([movers EXCEPT !.files = MarkAt(movers.files, fl, mark)], fl, ok)
  /\ UNCHANGED <<opps, oppSeq, contacts, comms, now, resp, profiles>>

\* xhr 'error': the request never reached the server
UploadNetworkError(fl) ==
  /\ fl \in movers.flights
  /\ movers' = Settled([movers EXCEPT
                          !.files = MarkAt(movers.files, fl, [error |-> Some("Network error")])],
                       fl, FALSE)
  /\ UNCHANGED <<opps, oppSeq, contacts, comms, docs, files, now, resp, profiles, docLog>>

\* the timer of a resolved upload-all: prev.filter(f => !f.success)
ClearSuccessful(n) ==
  /\ n \in movers.timers
  /\ movers' = [movers EXCEPT !.timers = movers.timers \ {n},
                              !.files = SelectSeq(movers.files, LAMBDA e : ~e.success)]
  /\ UNCHANGED <<opps, oppSeq, contacts, comms, docs, files, now, resp, profiles, docLog>>

UploadFlights == [batch : 1..MaxBatches, index : 1..Cardinality(Selectable), file : Selectable]

InitUpload ==
  /\ opps = [i \in OppIds |-> NoRow]
  /\ oppSeq = [u \in Users |-> 0]
  /\ contacts = [i \in ContactIds |-> NoRow]
  /\ comms = [i \in CommIds |-> NoRow]
  /\ docs = [i \in DocIds |-> NoRow]
  /\ files = {}
  /\ movers = UploadIdle
  /\ profiles = [u \in Users |-> NoRow]
  /\ docLog = DocLogOf(docs)
  /\ resp = NoResp
  /\ now = 1

NextUpload ==
  \/ \E name \in Selectable : DropFile(name)
  \/ \E k \in 1..Cardinality(Selectable) : removeFile(k)
  \/ uploadAllFiles
  \/ \E fl \in UploadFlights : UploadProgress(fl)
  \/ \E fl \in UploadFlights, fail \in Faults : UploadLoad("u1", fl, fail)
  \/ \E fl \in UploadFlights : UploadNetworkError(fl)
  \/ \E n \in 1..MaxBatches : ClearSuccessful(n)

SpecUpload == InitUpload /\ [][NextUpload]_vars

\* the document records made from the selected file name
RecordsOf(name) == {i \in Stored(docs) : docs[i].originalName = name}

\* C30: every selected file has at most one document record, and every mark
\* of a list entry was written by a request that carried the entry's file.
C30_UploadOnceAndOwnMarks ==
  /\ \A name \in Selectable : Cardinality(RecordsOf(name)) <= 1
  /\ \A k \in 1..Len(movers.files) : movers.files[k].by \subseteq {movers.files[k].file}

====
